---- MODULE Spec2Model ----
(***************************************************************************)
(* Model of the media conversion core of the repository:                   *)
(*   - the fragmented-MP4 sample position resolver (getSamplesFromMoof),    *)
(*   - the incremental Matroska element parser (expectSegment),            *)
(*   - the conversion controller (convertMedia).                           *)
(* Each part has its own specification over its own variables; the other   *)
(* variables stay at their idle values.                                    *)
(***************************************************************************)
EXTENDS Integers, Sequences, FiniteSets, TLC

VARIABLES
    \* ---- getSamplesFromMoof ----
    segment,      \* the moof box handed to getSamplesFromMoof
    drawn,        \* how many boxes and trun rows were drawn into it
    moofPc,       \* "build" while the input is drawn, "called" after the call
    trackIdArg,   \* the trackId argument of the call
    mapped,       \* the local `mapped` of getSamplesFromMoof (one list per traf)
    moofResult,   \* what the call returned or threw
    \* ---- expectSegment ----
    mkvPlan,      \* the elements the input holds (indices into Catalog)
    mkvStream,    \* all bytes of the input
    mkvArrived,   \* how many of them are in the iterator's buffer
    mkvOffset,    \* iterator.counter.getOffset()
    parserState,  \* parserContext.parserState
    mkvStatus,    \* status of the last ParseResult ("idle" before a call)
    mkvCont,      \* what continueParsing of the last ParseResult resumes
    mkvSegments,  \* the segments of all ParseResults with status 'done'
    mkvLast,      \* the last call: offset at entry, segments returned, ...
    \* ---- convertMedia ----
    convArgs,          \* the arguments to, videoCodec, audioCodec
    convPc,            \* where the call of convertMedia stands
    promise,           \* the promise convertMedia returns
    signal,            \* the signal of the AbortController
    convertMediaState, \* the four counters
    state,             \* the media that createMedia returned (the muxer)
    parser,            \* parseMedia: tracks not yet found, samples left
    stages,            \* per track kind: encoder, decoder and their queues
    updates,           \* the states delivered to onMediaStateUpdate
    \* ---- canCopyVideoTrack, serializeTrack ----
    calls,             \* the calls made so far: arguments and outcome
    \* ---- ConvertUI ----
    ui                 \* the component: its state and what its closures hold

moofVars == <<segment, drawn, moofPc, trackIdArg, mapped, moofResult>>
mkvVars == <<mkvPlan, mkvStream, mkvArrived, mkvOffset, parserState, mkvStatus,
             mkvCont, mkvSegments, mkvLast>>

callVars == <<calls>>

uiVars == <<ui>>

convVars == <<convArgs, convPc, promise, signal, convertMediaState, state,
              parser, stages, updates>>

vars == <<segment, drawn, moofPc, trackIdArg, mapped, moofResult,
          mkvPlan, mkvStream, mkvArrived, mkvOffset, parserState, mkvStatus,
          mkvCont, mkvSegments, mkvLast,
          convArgs, convPc, promise, signal, convertMediaState, state,
          parser, stages, updates, calls, ui>>

(***************************************************************************)
(* Optional values: `x ?? null` of the source.                             *)
(***************************************************************************)
None == [has |-> FALSE, v |-> 0]
Some(x) == [has |-> TRUE, v |-> x]

\* a ?? b
Coalesce(a, b) == IF a.has THEN a ELSE b

RECURSIVE SumSeq(_)
SumSeq(s) == IF s = <<>> THEN 0 ELSE Head(s) + SumSeq(Tail(s))

RECURSIVE Flat(_)
Flat(ss) == IF ss = <<>> THEN <<>> ELSE Head(ss) \o Flat(Tail(ss))

(***************************************************************************)
(*                    Fragmented MP4: getSamplesFromMoof                    *)
(***************************************************************************)

\* Bounds of the drawn moof.
MaxBoxes == 6

KeyBit == 65536

\* the other parts at rest
IdleMoof ==
    /\ segment = [type |-> "regular-box", offset |-> 0, children |-> <<>>]
    /\ drawn = 0
    /\ moofPc = "idle"
    /\ trackIdArg = 0
    /\ mapped = <<>>
    /\ moofResult = [status |-> "ok", message |-> "", samples |-> <<>>]

IdleMkv ==
    /\ mkvPlan = <<>>
    /\ mkvStream = <<>>
    /\ mkvArrived = 0
    /\ mkvOffset = 0
    /\ parserState = <<>>
    /\ mkvStatus = "idle"
    /\ mkvCont = <<>>
    /\ mkvSegments = <<>>
    /\ mkvLast = <<>>

IdleConvert ==
    /\ convArgs = <<>>
    /\ convPc = "idle"
    /\ promise = <<>>
    /\ signal = <<>>
    /\ convertMediaState = <<>>
    /\ state = <<>>
    /\ parser = <<>>
    /\ stages = <<>>
    /\ updates = <<>>

IdleCalls == calls = <<>>

\* the converter UI before it is mounted
IdleUi == ui = <<>>

TrackIds == {1, 2}
MoofOffsets == {100}

TrunSample(d, s, f) ==
    [sampleDuration |-> d, sampleSize |-> s, sampleFlags |-> f]

\* The rows a trun is drawn from: all fields explicit, explicit zeros in all
\* fields, no flags, nothing explicit, no size.
TrunSamples ==
    { TrunSample(Some(2), Some(3), Some(KeyBit)),
      TrunSample(Some(0), Some(0), Some(0)),
      TrunSample(Some(2), Some(3), None),
      TrunSample(None, None, None),
      TrunSample(Some(2), None, Some(KeyBit)) }

\* The trun headers drawn: <<dataOffset, firstSampleFlags>>.
TrunHeaders == { <<None, None>>, <<Some(7), Some(0)>> }

NoTfhd == [has |-> FALSE, trackId |-> 0, defaultSampleDuration |-> None,
           defaultSampleSize |-> None, defaultSampleFlags |-> None]

Tfhd(t, d, s, f) ==
    [has |-> TRUE, trackId |-> t, defaultSampleDuration |-> d,
     defaultSampleSize |-> s, defaultSampleFlags |-> f]

\* The traf headers drawn: <<tfhd, tfdt.baseMediaDecodeTime>>.
TrafHeaders ==
    { <<NoTfhd, None>>,
      <<Tfhd(1, None, None, None), Some(90)>>,
      <<Tfhd(1, Some(1), Some(1), Some(KeyBit)), None>>,
      <<Tfhd(1, Some(0), Some(0), Some(0)), Some(90)>>,
      <<Tfhd(2, None, None, None), None>> }

TrafBox(tfhd, tfdt) ==
    [type |-> "regular-box", boxType |-> "traf", tfhd |-> tfhd, tfdt |-> tfdt,
     truns |-> <<>>]

OtherBox == [type |-> "regular-box", boxType |-> "mfhd", tfhd |-> NoTfhd,
             tfdt |-> None, truns |-> <<>>]

\* traversal helpers
getTfhdBox(traf) == traf.tfhd
getTfdtBox(traf) == traf.tfdt
getTrunBoxes(traf) == traf.truns

\* sample.sampleDuration ?? defaultSampleDuration
resolveDurationDefaultFirst(sample, defaultSampleDuration) ==
    Coalesce(defaultSampleDuration, sample.sampleDuration)
resolveDuration(sample, defaultSampleDuration) ==
    Coalesce(sample.sampleDuration, defaultSampleDuration)

\* sample.sampleSize ?? defaultSampleSize
resolveSize(sample, defaultSampleSize) ==
    Coalesce(sample.sampleSize, defaultSampleSize)

\* sample.sampleFlags ? sample.sampleFlags
\*   : isFirstSample && trunBox.firstSampleFlags !== null
\*     ? trunBox.firstSampleFlags : defaultSampleFalgs
\* (the first test is JavaScript truthiness: a present 0 is falsy)
resolveFlags(sample, isFirstSample, trunBox, defaultSampleFalgs) ==
    IF sample.sampleFlags.has /\ sample.sampleFlags.v # 0
    THEN sample.sampleFlags
    ELSE IF isFirstSample /\ trunBox.firstSampleFlags.has
         THEN trunBox.firstSampleFlags
         ELSE defaultSampleFalgs

\* !((sampleFlags >> 16) & 0x1)
keyframeOf(sampleFlags) == ((sampleFlags \div KeyBit) % 2) = 0

\* State of the two loops of getSamplesFromTraf.
TrafAcc(offset, time, samples, error) ==
    [offset |-> offset, time |-> time, samples |-> samples, error |-> error]

\* One iteration of the inner loop (lines 50-83); i is the zero-based index.
sampleBody(acc, sample, i, trunBox, tfhdBox, tfdtBox, moofOffset) ==
    LET duration == resolveDuration(sample, tfhdBox.defaultSampleDuration)
        size == resolveSize(sample, tfhdBox.defaultSampleSize)
        sampleFlags == resolveFlags(sample, i = 0, trunBox,
                                    tfhdBox.defaultSampleFlags)
    IN  IF ~duration.has THEN [acc EXCEPT !.error = "Expected duration"]
        ELSE IF ~size.has THEN [acc EXCEPT !.error = "Expected size"]
        ELSE IF ~sampleFlags.has
             THEN [acc EXCEPT !.error = "Expected sample flags"]
        ELSE
          LET samplePosition ==
                [offset |-> acc.offset + Coalesce(trunBox.dataOffset, Some(0)).v
                                + moofOffset,
                 dts |-> acc.time + Coalesce(tfdtBox, Some(0)).v,
                 cts |-> acc.time + Coalesce(tfdtBox, Some(0)).v,
                 duration |-> duration.v,
                 isKeyframe |-> keyframeOf(sampleFlags.v),
                 size |-> size.v]
          IN  [offset |-> acc.offset + size.v,
               time |-> acc.time + duration.v,
               samples |-> Append(acc.samples, samplePosition),
               error |-> ""]

\* the loop body without `time += duration`
sampleStepNoTime(acc, sample, i, trunBox, tfhdBox, tfdtBox, moofOffset) ==
    [sampleBody(acc, sample, i, trunBox, tfhdBox, tfdtBox, moofOffset)
        EXCEPT !.time = acc.time]
sampleStep(acc, sample, i, trunBox, tfhdBox, tfdtBox, moofOffset) ==
    sampleBody(acc, sample, i, trunBox, tfhdBox, tfdtBox, moofOffset)

RECURSIVE samplesLoop(_, _, _, _, _, _)
samplesLoop(acc, trunBox, n, tfhdBox, tfdtBox, moofOffset) ==
    IF acc.error # "" \/ n > Len(trunBox.samples) THEN acc
    ELSE samplesLoop(
            sampleStep(acc, trunBox.samples[n], n - 1, trunBox, tfhdBox,
                       tfdtBox, moofOffset),
            trunBox, n + 1, tfhdBox, tfdtBox, moofOffset)

\* for (const trunBox of trunBoxes): the accumulator is carried from one trun
\* to the next.
trunStepReset(acc, trunBox, tfhdBox, tfdtBox, moofOffset) ==
    samplesLoop([acc EXCEPT !.offset = 0, !.time = 0], trunBox, 1, tfhdBox,
                tfdtBox, moofOffset)
trunStep(acc, trunBox, tfhdBox, tfdtBox, moofOffset) ==
    samplesLoop(acc, trunBox, 1, tfhdBox, tfdtBox, moofOffset)

RECURSIVE trunsLoop(_, _, _, _, _, _)
trunsLoop(acc, trunBoxes, t, tfhdBox, tfdtBox, moofOffset) ==
    IF acc.error # "" \/ t > Len(trunBoxes) THEN acc
    ELSE trunsLoop(trunStep(acc, trunBoxes[t], tfhdBox, tfdtBox, moofOffset),
                   trunBoxes, t + 1, tfhdBox, tfdtBox, moofOffset)

Thrown(msg) == [status |-> "error", message |-> msg, samples |-> <<>>]
Returned(samples) == [status |-> "ok", message |-> "", samples |-> samples]

\* the state of the loops when getSamplesFromTraf returns or throws
trafLoops(trafSegment, moofOffset) ==
    trunsLoop(TrafAcc(0, 0, <<>>, ""), getTrunBoxes(trafSegment), 1,
              getTfhdBox(trafSegment), getTfdtBox(trafSegment), moofOffset)

\* a getSamplesFromTraf that returns the samples pushed before the failing row
getSamplesFromTrafPrefix(trafSegment, moofOffset) ==
    Returned(trafLoops(trafSegment, moofOffset).samples)
getSamplesFromTraf(trafSegment, moofOffset) ==
    IF trafSegment.type # "regular-box" \/ trafSegment.boxType # "traf"
    THEN Thrown("Expected traf-box")
    ELSE
      LET acc == trafLoops(trafSegment, moofOffset)
      IN  IF acc.error # "" THEN Thrown(acc.error) ELSE Returned(acc.samples)

\* segment.children.filter(c => c.type === 'regular-box' && c.boxType === 'traf')
trafsOf(seg) ==
    SelectSeq(seg.children,
              LAMBDA c : c.type = "regular-box" /\ c.boxType = "traf")

\* the callback of trafs.map(...)
mapTrafAnyTrack(traf, seg, trackId) ==
    getSamplesFromTraf(traf, seg.offset)
mapTraf(traf, seg, trackId) ==
    IF getTfhdBox(traf).has /\ getTfhdBox(traf).trackId = trackId
    THEN getSamplesFromTraf(traf, seg.offset)
    ELSE Returned(<<>>)

\* the array `mapped`; a throwing callback aborts the map
mappedOf(seg, trackId) ==
    [j \in 1..Len(trafsOf(seg)) |-> mapTraf(trafsOf(seg)[j], seg, trackId)]

getSamplesFromMoof(seg, trackId) ==
    IF seg.type # "regular-box" THEN Thrown("Expected moof-box")
    ELSE
      LET m == mappedOf(seg, trackId)
          bad == {j \in 1..Len(m) : m[j].status = "error"}
      IN  IF bad # {}
          THEN m[CHOOSE j \in bad : \A k \in bad : j <= k]
          ELSE Returned(Flat([j \in 1..Len(m) |-> m[j].samples]))

(***************************************************************************)
(* The specification of the resolver: a moof is drawn box by box, then     *)
(* getSamplesFromMoof is called on it once.  A traf or trun is drawn only  *)
(* after the one before it received a row, and at most MaxBoxes boxes and  *)
(* rows are drawn in all.                                                  *)
(***************************************************************************)
lastChild(seg) == seg.children[Len(seg.children)]
lastTrun(seg) == lastChild(seg).truns[Len(lastChild(seg).truns)]

\* the last box drawn is a trun that holds a row
lastTrunHasRow(seg) ==
    /\ seg.children # <<>>
    /\ lastChild(seg).truns # <<>>
    /\ lastTrun(seg).samples # <<>>

InitMoof ==
    /\ segment \in { [type |-> ty, offset |-> o, children |-> <<>>] :
                        ty \in {"regular-box", "ftyp-box"}, o \in MoofOffsets }
    /\ moofPc = "build"
    /\ drawn = 0
    /\ trackIdArg = 0
    /\ mapped = <<>>
    /\ moofResult = Returned(<<>>)
    /\ IdleMkv
    /\ IdleConvert
    /\ IdleCalls
    /\ IdleUi

AddTraf ==
    /\ moofPc = "build"
    /\ segment.type = "regular-box"
    /\ drawn < MaxBoxes
    /\ IF segment.children = <<>> THEN TRUE
       ELSE IF lastChild(segment).boxType # "traf" THEN TRUE
       ELSE lastTrunHasRow(segment)
    /\ \E h \in TrafHeaders :
         segment' = [segment EXCEPT
                        !.children = Append(@, TrafBox(h[1], h[2]))]
    /\ drawn' = drawn + 1
    /\ UNCHANGED <<moofPc, trackIdArg, mapped, moofResult>>
    /\ UNCHANGED <<mkvVars, convVars, callVars, uiVars>>

AddOtherBox ==
    /\ moofPc = "build"
    /\ segment.type = "regular-box"
    /\ drawn < MaxBoxes
    /\ segment.children = <<>>
    /\ segment' = [segment EXCEPT !.children = Append(@, OtherBox)]
    /\ drawn' = drawn + 1
    /\ UNCHANGED <<moofPc, trackIdArg, mapped, moofResult>>
    /\ UNCHANGED <<mkvVars, convVars, callVars, uiVars>>

AddTrun ==
    /\ moofPc = "build"
    /\ drawn < MaxBoxes
    /\ segment.children # <<>>
    /\ lastChild(segment).boxType = "traf"
    /\ IF lastChild(segment).truns = <<>> THEN TRUE
       ELSE lastTrunHasRow(segment)
    /\ \E h \in TrunHeaders :
         segment' = [segment EXCEPT !.children[Len(segment.children)].truns =
                       Append(@, [dataOffset |-> h[1],
                                  firstSampleFlags |-> h[2],
                                  samples |-> <<>>])]
    /\ drawn' = drawn + 1
    /\ UNCHANGED <<moofPc, trackIdArg, mapped, moofResult>>
    /\ UNCHANGED <<mkvVars, convVars, callVars, uiVars>>

AddSample ==
    /\ moofPc = "build"
    /\ drawn < MaxBoxes
    /\ segment.children # <<>>
    /\ lastChild(segment).truns # <<>>
    /\ \E s \in TrunSamples :
         segment' = [segment EXCEPT
                       !.children[Len(segment.children)]
                        .truns[Len(lastChild(segment).truns)].samples =
                           Append(@, s)]
    /\ drawn' = drawn + 1
    /\ UNCHANGED <<moofPc, trackIdArg, mapped, moofResult>>
    /\ UNCHANGED <<mkvVars, convVars, callVars, uiVars>>

CallGetSamplesFromMoof ==
    /\ moofPc = "build"
    /\ \E trackId \in TrackIds :
         LET r == getSamplesFromMoof(segment, trackId) IN
           /\ trackIdArg' = trackId
           /\ moofResult' = r
           /\ mapped' = IF r.status = "ok" /\ segment.type = "regular-box"
                        THEN mappedOf(segment, trackId)
                        ELSE <<>>
    /\ moofPc' = "called"
    /\ UNCHANGED <<segment, drawn>>
    /\ UNCHANGED <<mkvVars, convVars, callVars, uiVars>>

NextMoof ==
    \/ AddTraf
    \/ AddOtherBox
    \/ AddTrun
    \/ AddSample
    \/ CallGetSamplesFromMoof

SpecMoof == InitMoof /\ [][NextMoof]_vars

(***************************************************************************)
(* Properties of the resolver.                                             *)
(***************************************************************************)
\* The rows of a traf in order, each with the trun it belongs to and its
\* zero-based index in that trun.
RECURSIVE RowsFrom(_, _)
RowsFrom(truns, t) ==
    IF t > Len(truns) THEN <<>>
    ELSE [n \in 1..Len(truns[t].samples) |->
            [trun |-> truns[t], row |-> truns[t].samples[n], i |-> n - 1]]
         \o RowsFrom(truns, t + 1)
RowsOf(traf) == RowsFrom(traf.truns, 1)

Matches(traf) == traf.tfhd.has /\ traf.tfhd.trackId = trackIdArg
CalledOk == moofPc = "called" /\ moofResult.status = "ok"
         /\ segment.type = "regular-box"
Trafs == trafsOf(segment)

\* explicit value of the row if present, else the tfhd default
StatedDuration(traf, r) ==
    IF r.row.sampleDuration.has THEN r.row.sampleDuration
    ELSE traf.tfhd.defaultSampleDuration
StatedSize(traf, r) ==
    IF r.row.sampleSize.has THEN r.row.sampleSize
    ELSE traf.tfhd.defaultSampleSize
\* the fallback chain of the flags, by presence
StatedFlags(traf, r) ==
    IF r.row.sampleFlags.has THEN r.row.sampleFlags
    ELSE IF r.i = 0 /\ r.trun.firstSampleFlags.has
         THEN r.trun.firstSampleFlags
         ELSE traf.tfhd.defaultSampleFlags

SumBefore(f, k) == SumSeq([m \in 1..(k - 1) |-> f[m]])

\* C4: the k-th sample position of a traf has dts = baseMediaDecodeTime (or 0)
\* + the resolved durations of all earlier samples of the traf, and offset =
\* moof offset + dataOffset of its own trun (or 0) + the resolved sizes of all
\* earlier samples of the traf; nothing is reset between trun boxes.
C4_RunningOffsetAndTime ==
    CalledOk =>
      \A j \in 1..Len(Trafs) :
        Matches(Trafs[j]) =>
          LET traf == Trafs[j]
              rows == RowsOf(traf)
              out == mapped[j].samples
              durs == [m \in 1..Len(rows) |-> StatedDuration(traf, rows[m]).v]
              sizes == [m \in 1..Len(rows) |-> StatedSize(traf, rows[m]).v]
              base == IF traf.tfdt.has THEN traf.tfdt.v ELSE 0
          IN  /\ Len(out) = Len(rows)
              /\ \A k \in 1..Len(out) :
                   /\ out[k].dts = base + SumBefore(durs, k)
                   /\ out[k].offset =
                        segment.offset
                        + (IF rows[k].trun.dataOffset.has
                           THEN rows[k].trun.dataOffset.v ELSE 0)
                        + SumBefore(sizes, k)

\* a traf of the requested track with two trun boxes, each holding a row, the
\* first row of non-zero size and duration
C4_Witness ==
    /\ CalledOk
    /\ \E j \in 1..Len(Trafs) :
         /\ Matches(Trafs[j])
         /\ Len(Trafs[j].truns) >= 2
         /\ Trafs[j].truns[2].samples # <<>>
         /\ Len(mapped[j].samples) >= 2
         /\ mapped[j].samples[1].size > 0
         /\ mapped[j].samples[1].duration > 0

\* C5 as claimed: the flags are resolved by presence (explicit value, whatever
\* its number; else firstSampleFlags for the first row of a trun; else the tfhd
\* default), isKeyframe is true exactly when bit 16 of them is 0, and the call
\* fails for want of flags only when none of the three is present.
C5_FlagsChainByPresence ==
    /\ CalledOk =>
         \A j \in 1..Len(Trafs) :
           Matches(Trafs[j]) =>
             \A k \in 1..Len(mapped[j].samples) :
               LET r == RowsOf(Trafs[j])[k]
                   f == StatedFlags(Trafs[j], r)
               IN  /\ f.has
                   /\ mapped[j].samples[k].isKeyframe = ((f.v \div KeyBit) % 2 = 0)
    /\ (moofPc = "called" /\ moofResult.message = "Expected sample flags") =>
         \E j \in 1..Len(Trafs) :
           /\ Matches(Trafs[j])
           /\ \E k \in 1..Len(RowsOf(Trafs[j])) :
                ~StatedFlags(Trafs[j], RowsOf(Trafs[j])[k]).has

\* a row of a traf of the requested track can / cannot be resolved
RowLacks(traf, r) ==
    \/ ~StatedDuration(traf, r).has
    \/ ~StatedSize(traf, r).has

\* C6: a row of a matching traf with neither an explicit nor a default duration
\* (or size) makes getSamplesFromMoof fail and return no sample position at all;
\* an explicit duration or size is used even if the tfhd default differs.
C6_MissingDurationOrSizeFails ==
    moofPc = "called" =>
      /\ (\E j \in 1..Len(Trafs) :
            /\ Matches(Trafs[j])
            /\ \E k \in 1..Len(RowsOf(Trafs[j])) :
                 RowLacks(Trafs[j], RowsOf(Trafs[j])[k]))
           => (moofResult.status = "error" /\ moofResult.samples = <<>>)
      /\ CalledOk =>
           \A j \in 1..Len(Trafs) :
             Matches(Trafs[j]) =>
               \A k \in 1..Len(mapped[j].samples) :
                 LET r == RowsOf(Trafs[j])[k] IN
                   /\ r.row.sampleDuration.has =>
                        mapped[j].samples[k].duration = r.row.sampleDuration.v
                   /\ r.row.sampleSize.has =>
                        mapped[j].samples[k].size = r.row.sampleSize.v

\* the call failed on a row that follows a row that could be resolved
C6_Witness ==
    /\ moofPc = "called"
    /\ moofResult.status = "error"
    /\ moofResult.message \in {"Expected duration", "Expected size"}
    /\ \E j \in 1..Len(Trafs) :
         /\ Matches(Trafs[j])
         /\ Len(RowsOf(Trafs[j])) >= 2
         /\ ~RowLacks(Trafs[j], RowsOf(Trafs[j])[1])
         /\ StatedFlags(Trafs[j], RowsOf(Trafs[j])[1]).has
         /\ StatedFlags(Trafs[j], RowsOf(Trafs[j])[1]).v # 0
         /\ RowLacks(Trafs[j], RowsOf(Trafs[j])[2])

\* C7 as claimed: every sample position returned has duration > 0 and size > 0.
C7_PositiveDurationAndSize ==
    CalledOk =>
      \A k \in 1..Len(moofResult.samples) :
        /\ moofResult.samples[k].duration > 0
        /\ moofResult.samples[k].size > 0

\* C7 as amended: every sample position returned has duration >= 0 and size >= 0,
\* each the value resolved for its row (the explicit trun value, else the tfhd
\* default); a supplied 0 is emitted as 0.
C7_DurationAndSizeAsResolved ==
    CalledOk =>
      \A j \in 1..Len(Trafs) :
        Matches(Trafs[j]) =>
          /\ Len(mapped[j].samples) = Len(RowsOf(Trafs[j]))
          /\ \A k \in 1..Len(mapped[j].samples) :
               LET r == RowsOf(Trafs[j])[k] IN
                 /\ mapped[j].samples[k].duration = StatedDuration(Trafs[j], r).v
                 /\ mapped[j].samples[k].size = StatedSize(Trafs[j], r).v
                 /\ mapped[j].samples[k].duration >= 0
                 /\ mapped[j].samples[k].size >= 0

\* a returned sample of duration 0 and size 0, from an explicit 0 of the trun
\* that overrides a non-zero tfhd default
C7_Witness ==
    /\ CalledOk
    /\ \E j \in 1..Len(Trafs) :
         /\ Matches(Trafs[j])
         /\ Trafs[j].tfhd.defaultSampleDuration = Some(1)
         /\ \E k \in 1..Len(mapped[j].samples) :
              /\ mapped[j].samples[k].duration = 0
              /\ mapped[j].samples[k].size = 0

\* C8 as claimed: in the list returned for one trackId, dts strictly increases
\* from each sample position to the next.
C8_DtsStrictlyIncreases ==
    CalledOk =>
      \A k \in 1..(Len(moofResult.samples) - 1) :
        moofResult.samples[k + 1].dts > moofResult.samples[k].dts

\* C8 as amended: among the samples of one traf, across its trun boxes, each
\* dts is the dts before it plus the duration before it, so dts never decreases
\* and increases exactly where that duration is > 0.
C8_DtsWithinTraf ==
    CalledOk =>
      \A j \in 1..Len(Trafs) :
        \A k \in 1..(Len(mapped[j].samples) - 1) :
          LET a == mapped[j].samples[k]
              b == mapped[j].samples[k + 1]
          IN  /\ b.dts = a.dts + a.duration
              /\ b.dts >= a.dts
              /\ (b.dts > a.dts) <=> (a.duration > 0)

\* two traf boxes of the requested track, the second starting at a dts below
\* the last dts of the first, each with its own samples in order
C8_Witness ==
    /\ CalledOk
    /\ \E j \in 1..(Len(Trafs) - 1) :
         /\ mapped[j].samples # <<>>
         /\ mapped[j + 1].samples # <<>>
         /\ mapped[j + 1].samples[1].dts
              < mapped[j].samples[Len(mapped[j].samples)].dts

\* what the children of the moof contribute, in order: the samples of each traf
\* whose tfhd.trackId is the requested one
RECURSIVE SamplesOfMatching(_, _)
SamplesOfMatching(children, k) ==
    IF k > Len(children) THEN <<>>
    ELSE (IF children[k].boxType = "traf" /\ Matches(children[k])
          THEN getSamplesFromTraf(children[k], segment.offset).samples
          ELSE <<>>)
         \o SamplesOfMatching(children, k + 1)

MatchingTrafFails ==
    \E k \in 1..Len(segment.children) :
      /\ segment.children[k].boxType = "traf"
      /\ Matches(segment.children[k])
      /\ getSamplesFromTraf(segment.children[k], segment.offset).status = "error"

\* C9: getSamplesFromMoof returns exactly the samples of the traf children whose
\* tfhd.trackId is the requested one, in the order of the trafs; a traf of
\* another track or without tfhd contributes nothing and its rows cause no error.
C9_OnlyMatchingTrafs ==
    (moofPc = "called" /\ segment.type = "regular-box") =>
      /\ (moofResult.status = "error") <=> MatchingTrafFails
      /\ moofResult.status = "ok" =>
           moofResult.samples = SamplesOfMatching(segment.children, 1)

\* the call returned samples although a traf of another track, or one without
\* tfhd, holds a row that cannot be resolved
C9_Witness ==
    /\ CalledOk
    /\ moofResult.samples # <<>>
    /\ \E k \in 1..Len(segment.children) :
         /\ segment.children[k].boxType = "traf"
         /\ ~Matches(segment.children[k])
         /\ getSamplesFromTraf(segment.children[k], segment.offset).status = "error"

(***************************************************************************)
(*              Matroska: expectSegment and parseSegment                    *)
(***************************************************************************)

\* How many elements an input holds at most.
MaxElements == 2

\* matroskaElements: the element ids, as the bytes they have on the wire
matroskaElements ==
    [Segment |-> <<24, 83, 128, 103>>,
     Cluster |-> <<31, 67, 182, 117>>,
     Tracks |-> <<22, 84, 174, 107>>,
     TrackEntry |-> <<174>>,
     TrackNumber |-> <<215>>,
     TrackUID |-> <<115, 197>>,
     FlagLacing |-> <<156>>,
     Language |-> <<34, 181, 156>>,
     MaxBlockAdditionId |-> <<85, 238>>,
     Color |-> <<85, 176>>,
     DefaultDuration |-> <<35, 227, 131>>,
     Video |-> <<224>>,
     Audio |-> <<225>>,
     CodecPrivate |-> <<99, 162>>,
     DefaultFlag |-> <<136>>,
     Tags |-> <<18, 84, 195, 103>>,
     Tag |-> <<115, 115>>,
     Timestamp |-> <<231>>,
     SimpleBlock |-> <<163>>,
     Block |-> <<161>>,
     ReferenceBlock |-> <<251>>,
     BlockAdditions |-> <<117, 161>>,
     BlockGroup |-> <<160>>,
     TimestampScale |-> <<42, 215, 177>>,
     TrackType |-> <<131>>,
     Void |-> <<236>>]

\* ---- the byte iterator ----
bytesRemaining(data, off) == Len(data) - off

\* the width that the leading byte of an id or of a VINT announces
VintWidth(b) ==
    IF b >= 128 THEN 1 ELSE IF b >= 64 THEN 2 ELSE IF b >= 32 THEN 3 ELSE 4
VintMarker(w) ==
    IF w = 1 THEN 128 ELSE IF w = 2 THEN 64 ELSE IF w = 3 THEN 32 ELSE 16

RECURSIVE BytesValue(_)
BytesValue(bs) ==
    IF bs = <<>> THEN 0
    ELSE BytesValue(SubSeq(bs, 1, Len(bs) - 1)) * 256 + bs[Len(bs)]

\* Reads the id byte by byte; null when the bytes run out, with the bytes read
\* so far consumed.
getMatroskaSegmentId(data, off) ==
    IF bytesRemaining(data, off) = 0
    THEN [ok |-> FALSE, id |-> <<>>, offset |-> off]
    ELSE LET w == VintWidth(data[off + 1]) IN
         IF bytesRemaining(data, off) < w
         THEN [ok |-> FALSE, id |-> <<>>, offset |-> Len(data)]
         ELSE [ok |-> TRUE, id |-> SubSeq(data, off + 1, off + w),
               offset |-> off + w]

\* Reads a VINT; null when the bytes run out, with the leading byte consumed.
getVint(data, off) ==
    IF bytesRemaining(data, off) = 0
    THEN [ok |-> FALSE, value |-> 0, offset |-> off]
    ELSE LET first == data[off + 1]
             w == VintWidth(first)
         IN  IF bytesRemaining(data, off + 1) < w - 1
             THEN [ok |-> FALSE, value |-> 0, offset |-> off + 1]
             ELSE [ok |-> TRUE,
                   value |-> BytesValue(<<first % VintMarker(w)>>
                                        \o SubSeq(data, off + 2, off + w)),
                   offset |-> off + w]

\* ---- parse products and the parser state ----
NoSample == [has |-> FALSE, trackId |-> 0]
Seg(type, value, children, videoSample) ==
    [type |-> type, value |-> value, children |-> children,
     videoSample |-> videoSample]

Event(ev, a, b, t) == [ev |-> ev, a |-> a, b |-> b, t |-> t]

TrackNumbers == 1..4
\* The state before the input: tracks 1 (video) and 2 (audio) are known from
\* earlier track entries, the timescale is the default.
InitialParserState ==
    [timescale |-> 1000000,
     events |-> <<>>,
     trackEntries |-> [n \in TrackNumbers |->
                         IF n = 1 THEN "video" ELSE IF n = 2 THEN "audio"
                         ELSE "none"]]

emit(pstate, e) == [pstate EXCEPT !.events = Append(@, e)]

Failed(pstate, off, msg) ==
    [ok |-> FALSE, segment |-> Seg("none", 0, <<>>, NoSample), offset |-> off,
     pstate |-> pstate, error |-> msg]
Parsed(seg, off, pstate) ==
    [ok |-> TRUE, segment |-> seg, offset |-> off, pstate |-> pstate,
     error |-> ""]

\* a leaf parser: reads `length` bytes into a segment of the given type
parseLeaf(type, data, off, length, pstate) ==
    IF off + length > Len(data) THEN Failed(pstate, off, "RangeError")
    ELSE Parsed(Seg(type,
                    IF length <= 3
                    THEN BytesValue(SubSeq(data, off + 1, off + length)) ELSE 0,
                    <<>>, NoSample),
                off + length, pstate)

\* parseEbml: reads id, size and value of an element of the ebml map
EbmlName(id) ==
    IF id = matroskaElements.TimestampScale THEN "TimestampScale"
    ELSE IF id = matroskaElements.TrackType THEN "TrackType"
    ELSE IF id = matroskaElements.Void THEN "Void"
    ELSE "unknown"

parseEbml(data, off, pstate) ==
    LET id == getMatroskaSegmentId(data, off)
        size == getVint(data, id.offset)
    IN  IF ~id.ok \/ ~size.ok THEN Failed(pstate, off, "RangeError")
        ELSE IF EbmlName(id.id) = "unknown"
        THEN Failed(pstate, off, "Don't know how to parse EBML")
        ELSE parseLeaf(EbmlName(id.id), data, size.offset, size.value, pstate)

\* parseSimpleBlockOrBlockSegment: track number, 16-bit timecode, flags, data.
\* A SimpleBlock of a video track is emitted at once with the keyframe bit of
\* its flags; a Block of a video track is handed back as videoSample.
trackKind(pstate, n) ==
    IF n \in TrackNumbers THEN pstate.trackEntries[n] ELSE "none"

parseSimpleBlockOrBlockSegment(data, off, length, pstate, type) ==
    IF off + length > Len(data) \/ length < 4
    THEN Failed(pstate, off, "RangeError")
    ELSE
      LET trackNumber == data[off + 1] % 128
          flags == data[off + 4]
          kind == trackKind(pstate, trackNumber)
      IN  IF kind = "none" \/ kind = "other"
          THEN Failed(pstate, off, "Could not find codec for track")
          ELSE Parsed(
                 Seg("simple-block-or-block-segment", trackNumber, <<>>,
                     IF kind = "video" /\ type # matroskaElements.SimpleBlock
                     THEN [has |-> TRUE, trackId |-> trackNumber]
                     ELSE NoSample),
                 off + length,
                 IF kind = "audio"
                 THEN emit(pstate, Event("onAudioSample", trackNumber, 0, "key"))
                 ELSE IF type = matroskaElements.SimpleBlock
                 THEN emit(pstate,
                           Event("onVideoSample", trackNumber, 0,
                                 IF flags >= 128 THEN "key" ELSE "delta"))
                 ELSE pstate)

\* the first child of the given type, or a segment of type "none"
findChild(children, type) ==
    IF \E k \in 1..Len(children) : children[k].type = type
    THEN children[CHOOSE k \in 1..Len(children) :
                    /\ children[k].type = type
                    /\ \A m \in 1..(k - 1) : children[m].type # type]
    ELSE Seg("none", 0, <<>>, NoSample)

\* getTrack: the track of a track entry, by its TrackType child; null for a
\* type that is neither video (1) nor audio (2)
getTrack(trackEntry, timescale) ==
    LET trackType == findChild(trackEntry.children, "TrackType")
        trackNumber == findChild(trackEntry.children, "track-number-segment")
    IN  IF trackType.type = "none" \/ trackNumber.type = "none"
        THEN [error |-> TRUE, has |-> FALSE, kind |-> "none", trackId |-> 0,
              timescale |-> 0]
        ELSE [error |-> FALSE,
              has |-> trackType.value \in {1, 2},
              kind |-> IF trackType.value = 1 THEN "video"
                       ELSE IF trackType.value = 2 THEN "audio" ELSE "other",
              trackId |-> trackNumber.value,
              timescale |-> timescale]

\* parserState.onTrackEntrySegment: records the entry under its track number
onTrackEntrySegment(pstate, trackEntry) ==
    LET t == getTrack(trackEntry, 0)
        ps == emit(pstate, Event("onTrackEntrySegment", t.trackId, 0, t.kind))
    IN  IF ~t.error /\ t.trackId \in TrackNumbers
        THEN [ps EXCEPT !.trackEntries[t.trackId] = t.kind]
        ELSE ps

registerTrack(pstate, track) ==
    emit(pstate, Event("registerTrack", track.trackId, track.timescale,
                       track.kind))

\* ---- expectSegment (lines 329-433) and its pieces ----
\* iterator.counter.decrement(iterator.counter.getOffset() - offset)
rewindAfterId(current, offset) == offset
lengthNotRewound(current, offset) == current
rewindAfterLength(current, offset) == offset
headerNotRewound(current, offset) == current
rewindAfterHeader(current, offset) == offset

\* bytesRemainingNow < length
payloadMissing(bytesRemainingNow, length) == bytesRemainingNow < length

\* segmentId === '0x18538067' || segmentId === '0x1f43b675'
parsesChildren(segmentId) == segmentId = matroskaElements.Segment \/ segmentId = matroskaElements.Cluster

\* type: hasReferenceBlock ? 'delta' : 'key'
frameTypeSwapped(hasReferenceBlock) ==
    IF hasReferenceBlock THEN "key" ELSE "delta"
frameType(hasReferenceBlock) ==
    IF hasReferenceBlock THEN "delta" ELSE "key"

ParseResult(status, segments, off, pstate, reason, error, cont) ==
    [status |-> status, segments |-> segments, offset |-> off,
     pstate |-> pstate, reason |-> reason, error |-> error, cont |-> cont]

ContSegment == [kind |-> "expectSegment", length |-> 0, children |-> <<>>,
                wrap |-> "none"]
ContChildren(length, children, wrap) ==
    [kind |-> "expectChildren", length |-> length, children |-> children,
     wrap |-> wrap]

Incomplete(off, pstate, reason) ==
    ParseResult("incomplete", <<>>, off, pstate, reason, "", ContSegment)

RECURSIVE expectSegment(_, _, _)
RECURSIVE expectChildren(_, _, _, _, _, _)
RECURSIVE parseSegment(_, _, _, _, _, _)

\* the children of an element that must be complete: parseTrackEntry,
\* parseBlockGroupSegment, parseTracksSegment, ... throw on incomplete children
containerOf(type, c) ==
    IF c.status = "error" THEN Failed(c.pstate, c.offset, c.error)
    ELSE IF c.status = "incomplete"
    THEN Failed(c.pstate, c.offset, "Incomplete children")
    ELSE Parsed(Seg(type, 0, c.segments, NoSample), c.offset, c.pstate)

parseContainer(type, data, off, length, pstate) ==
    containerOf(type, expectChildren(data, off, length, pstate, <<>>, "none"))

\* segmentId === matroskaElements.TrackEntry (lines 171-190)
trackRegistered(r, ps1, track) ==
    IF track.error THEN Failed(ps1, r.offset, "Expected track type segment")
    ELSE Parsed(r.segment, r.offset,
                IF track.has THEN registerTrack(ps1, track) ELSE ps1)

trackEntryNotedDefaultTimescale(r, ps1) ==
    trackRegistered(r, ps1,
                    getTrack(r.segment, InitialParserState.timescale))

trackEntryNoted(r, ps1) ==
    trackRegistered(r, ps1, getTrack(r.segment, ps1.timescale))

trackEntryParsed(r) ==
    IF ~r.ok THEN r
    ELSE trackEntryNoted(r, onTrackEntrySegment(r.pstate, r.segment))

parseTrackEntryBranch(data, off, length, pstate) ==
    trackEntryParsed(
        parseContainer("track-entry-segment", data, off, length, pstate))

\* segmentId === matroskaElements.Timestamp (lines 244-254)
timestampParsed(r, offset) ==
    IF ~r.ok THEN r
    ELSE Parsed(r.segment, r.offset,
                emit(r.pstate,
                     Event("setTimestampOffset", offset, r.segment.value, "")))

parseTimestampBranch(data, off, length, pstate) ==
    timestampParsed(parseLeaf("timestamp-segment", data, off, length, pstate),
                    off)

\* segmentId === '0xa0' (lines 276-313)
blockGroupSample(r, block, hasReferenceBlock, partialVideoSample) ==
    IF block.type = "none"
    THEN Failed(r.pstate, r.offset, "Expected block segment")
    ELSE Parsed(r.segment, r.offset,
                IF partialVideoSample.has
                THEN emit(r.pstate,
                          Event("onVideoSample", partialVideoSample.trackId, 0,
                                frameType(hasReferenceBlock)))
                ELSE r.pstate)

blockGroupBlock(r, block, referenceBlock) ==
    blockGroupSample(r, block, referenceBlock.type # "none", block.videoSample)

blockGroupParsed(r) ==
    IF ~r.ok THEN r
    ELSE blockGroupBlock(
           r,
           findChild(r.segment.children, "simple-block-or-block-segment"),
           findChild(r.segment.children, "reference-block-segment"))

parseBlockGroupBranch(data, off, length, pstate) ==
    blockGroupParsed(
        parseContainer("block-group-segment", data, off, length, pstate))

\* the fall-through of parseSegment (lines 319-326)
ebmlParsed(r) ==
    IF ~r.ok THEN r
    ELSE Parsed(r.segment, r.offset,
                IF r.segment.type = "TimestampScale"
                THEN [emit(r.pstate,
                           Event("setTimescale", r.segment.value, 0, ""))
                         EXCEPT !.timescale = r.segment.value]
                ELSE r.pstate)

parseEbmlBranch(data, off, pstate, headerReadSoFar) ==
    ebmlParsed(parseEbml(data, off - headerReadSoFar, pstate))

\* the ids whose branch hands the payload to one leaf parser, with the type of
\* the segment that parser returns
LeafParsers ==
    << <<matroskaElements.TrackNumber, "track-number-segment">>,
       <<matroskaElements.TrackUID, "track-uid-segment">>,
       <<matroskaElements.FlagLacing, "flag-lacing-segment">>,
       <<matroskaElements.Language, "language-segment">>,
       <<matroskaElements.MaxBlockAdditionId, "max-block-addition-id-segment">>,
       <<matroskaElements.Color, "color-segment">>,
       <<matroskaElements.DefaultDuration, "default-duration-segment">>,
       <<matroskaElements.CodecPrivate, "codec-private-segment">>,
       <<matroskaElements.DefaultFlag, "default-flag-segment">>,
       <<matroskaElements.Tag, "tag-segment">>,
       <<matroskaElements.ReferenceBlock, "reference-block-segment">>,
       <<matroskaElements.BlockAdditions, "block-additions-segment">> >>

\* the ids whose branch parses the payload as children
ContainerParsers ==
    << <<matroskaElements.Tracks, "tracks-segment">>,
       <<matroskaElements.Video, "video-segment">>,
       <<matroskaElements.Audio, "audio-segment">>,
       <<matroskaElements.Tags, "tags-segment">> >>

parserOf(table, segmentId) ==
    IF \E k \in 1..Len(table) : table[k][1] = segmentId
    THEN table[CHOOSE k \in 1..Len(table) : table[k][1] = segmentId][2]
    ELSE "none"

\* a test of the length that no length meets
lengthIsNegative(length) == length < 0

\* length === 0 (line 163)
lengthIsZero(length) == length = 0

\* The ids are pairwise different, so the branches are taken as in the source
\* whatever their order; its branch for '0xa1' is never reached, the id being
\* matroskaElements.Block.
parseSegment(segmentId, data, off, length, pstate, headerReadSoFar) ==
    IF lengthIsZero(length)
    THEN Failed(pstate, off, "Expected length to be greater than 0")
    ELSE IF segmentId = matroskaElements.TrackEntry
    THEN parseTrackEntryBranch(data, off, length, pstate)
    ELSE IF segmentId = matroskaElements.Timestamp
    THEN parseTimestampBranch(data, off, length, pstate)
    ELSE IF segmentId = matroskaElements.SimpleBlock \/ segmentId = matroskaElements.Block
    THEN parseSimpleBlockOrBlockSegment(data, off, length, pstate, segmentId)
    ELSE IF segmentId = matroskaElements.BlockGroup
    THEN parseBlockGroupBranch(data, off, length, pstate)
    ELSE IF parserOf(ContainerParsers, segmentId) # "none"
    THEN parseContainer(parserOf(ContainerParsers, segmentId), data, off,
                        length, pstate)
    ELSE IF parserOf(LeafParsers, segmentId) # "none"
    THEN parseLeaf(parserOf(LeafParsers, segmentId), data, off, length, pstate)
    ELSE parseEbmlBranch(data, off, pstate, headerReadSoFar)

\* expectChildren: expectSegment as long as `length` bytes are not consumed;
\* an incomplete child makes the children incomplete, to be resumed with the
\* length that is left and the children parsed so far
childParsed(r, data, off, length, children, wrap) ==
    IF r.status = "error" THEN r
    ELSE IF r.status = "incomplete"
    THEN ParseResult("incomplete", <<>>, r.offset, r.pstate, "children", "",
                     IF r.cont.kind = "expectChildren" THEN r.cont
                     ELSE ContChildren(length - (r.offset - off), children,
                                       wrap))
    ELSE expectChildren(data, r.offset, length - (r.offset - off), r.pstate,
                        children \o r.segments, wrap)

expectChildren(data, off, length, pstate, children, wrap) ==
    IF length <= 0
    THEN ParseResult("done",
                     IF wrap = "none" THEN children
                     ELSE <<Seg(wrap, 0, children, NoSample)>>,
                     off, pstate, "", "", ContSegment)
    ELSE childParsed(expectSegment(data, off, pstate), data, off, length,
                     children, wrap)

\* the end of expectSegment (lines 421-432)
segmentParsed(s) ==
    IF s.ok
    THEN ParseResult("done", <<s.segment>>, s.offset, s.pstate, "", "",
                     ContSegment)
    ELSE ParseResult("error", <<>>, s.offset, s.pstate, "", s.error,
                     ContSegment)

\* expectSegment once id and length are read (lines 372-432)
headerRead(data, offset, pstate, segmentId, length) ==
    IF parsesChildren(segmentId)
    THEN expectChildren(data, length.offset, length.value, pstate, <<>>,
                        IF segmentId = matroskaElements.Segment
                        THEN "main-segment" ELSE "cluster-segment")
    ELSE IF payloadMissing(Len(data) - length.offset, length.value)
    THEN Incomplete(rewindAfterHeader(length.offset, offset), pstate,
                    "payload")
    ELSE segmentParsed(parseSegment(segmentId, data, length.offset,
                                    length.value, pstate,
                                    length.offset - offset))

\* expectSegment once the length is attempted (lines 359-370)
lengthRead(data, offset, pstate, segmentId, length) ==
    IF ~length.ok
    THEN Incomplete(rewindAfterLength(length.offset, offset), pstate, "length")
    ELSE headerRead(data, offset, pstate, segmentId, length)

\* expectSegment once the id is attempted (lines 345-357)
idRead(data, offset, pstate, segmentId) ==
    IF ~segmentId.ok
    THEN Incomplete(rewindAfterId(segmentId.offset, offset), pstate, "id")
    ELSE lengthRead(data, offset, pstate, segmentId.id,
                    getVint(data, segmentId.offset))

expectSegment(data, offset, pstate) ==
    IF bytesRemaining(data, offset) = 0
    THEN Incomplete(offset, pstate, "no bytes")
    ELSE idRead(data, offset, pstate, getMatroskaSegmentId(data, offset))

\* continueParsing of a ParseResult
continueParsing(cont, data, offset, pstate) ==
    IF cont.kind = "expectChildren"
    THEN expectChildren(data, offset, cont.length, pstate, cont.children,
                        cont.wrap)
    ELSE expectSegment(data, offset, pstate)

\* ---- the inputs: elements as they are on the wire ----
Element(name, bytes, kind, effects) ==
    [name |-> name, bytes |-> bytes, kind |-> kind, effects |-> effects]

Catalog ==
    << Element("Timestamp", <<231, 129, 5>>, "leaf",
               <<"setTimestampOffset">>),
       Element("TimestampWide", <<231, 64, 2, 1, 0>>, "leaf",
               <<"setTimestampOffset">>),
       Element("TimestampScale", <<42, 215, 177, 129, 9>>, "leaf",
               <<"setTimescale">>),
       Element("TrackEntryVideo", <<174, 134, 215, 129, 3, 131, 129, 1>>,
               "leaf", <<"onTrackEntrySegment", "registerTrack">>),
       Element("TrackEntryOther", <<174, 134, 215, 129, 4, 131, 129, 17>>,
               "leaf", <<"onTrackEntrySegment">>),
       Element("SimpleBlockKey", <<163, 133, 129, 0, 0, 128, 77>>, "leaf",
               <<"onVideoSample">>),
       Element("BlockGroupKey", <<160, 135, 161, 133, 129, 0, 0, 0, 77>>,
               "leaf", <<"onVideoSample">>),
       Element("BlockGroupDelta",
               <<160, 138, 161, 133, 129, 0, 0, 0, 77, 251, 129, 1>>,
               "leaf", <<"onVideoSample">>),
       Element("BlockGroupAudio", <<160, 135, 161, 133, 130, 0, 0, 0, 77>>,
               "leaf", <<"onAudioSample">>),
       Element("BlockGroupNoBlock", <<160, 131, 251, 129, 1>>, "malformed",
               <<>>),
       Element("ZeroLength", <<215, 128>>, "malformed", <<>>),
       Element("ZeroLengthUnknown", <<191, 128>>, "malformed", <<>>),
       Element("ClusterZeroChild",
               <<31, 67, 182, 117, 133, 231, 129, 5, 215, 128>>,
               "cluster", <<"setTimestampOffset">>),
       Element("Cluster",
               <<31, 67, 182, 117, 138, 231, 129, 5,
                 163, 133, 129, 0, 0, 128, 77>>,
               "cluster", <<"setTimestampOffset", "onVideoSample">>) >>

RECURSIVE BytesOf(_)
BytesOf(plan) ==
    IF plan = <<>> THEN <<>>
    ELSE Catalog[Head(plan)].bytes \o BytesOf(Tail(plan))

NoCall == [call |-> "none", entry |-> 0, before |-> 0, reason |-> "",
           error |-> "", segments |-> <<>>]

InitMkv ==
    /\ mkvPlan \in UNION { [1..n -> 1..Len(Catalog)] : n \in 1..MaxElements }
    /\ mkvStream = BytesOf(mkvPlan)
    /\ mkvArrived = 0
    /\ mkvOffset = 0
    /\ parserState = InitialParserState
    /\ mkvStatus = "idle"
    /\ mkvCont = ContSegment
    /\ mkvSegments = <<>>
    /\ mkvLast = NoCall
    /\ IdleMoof
    /\ IdleConvert
    /\ IdleCalls
    /\ IdleUi

\* the bytes the iterator holds
Buffered == SubSeq(mkvStream, 1, mkvArrived)

\* more bytes of the input arrive
Arrive ==
    /\ mkvStatus # "error"
    /\ \E n \in 1..(Len(mkvStream) - mkvArrived) : mkvArrived' = mkvArrived + n
    /\ UNCHANGED <<mkvPlan, mkvStream, mkvOffset, parserState, mkvStatus,
                   mkvCont, mkvSegments, mkvLast>>
    /\ UNCHANGED <<moofVars, convVars, callVars, uiVars>>

\* what a call leaves behind
Returns(call, r) ==
    /\ mkvStatus' = r.status
    /\ mkvOffset' = r.offset
    /\ parserState' = r.pstate
    /\ mkvCont' = r.cont
    /\ mkvSegments' = mkvSegments \o r.segments
    /\ mkvLast' = [call |-> call, entry |-> mkvOffset,
                   before |-> Len(parserState.events),
                   reason |-> r.reason, error |-> r.error,
                   segments |-> r.segments]
    /\ UNCHANGED <<mkvPlan, mkvStream, mkvArrived>>
    /\ UNCHANGED <<moofVars, convVars, callVars, uiVars>>

\* the driver asks for the next element
CallExpectSegment ==
    /\ mkvStatus \in {"idle", "done"}
    /\ mkvOffset < Len(mkvStream)
    /\ Returns("expectSegment",
               expectSegment(Buffered, mkvOffset, parserState))

\* the driver resumes an incomplete result
ContinueParsing ==
    /\ mkvStatus = "incomplete"
    /\ Returns("continueParsing",
               continueParsing(mkvCont, Buffered, mkvOffset, parserState))

NextMkv == Arrive \/ CallExpectSegment \/ ContinueParsing

SpecMkv == InitMkv /\ [][NextMkv]_vars

(***************************************************************************)
(*                     Claims about the Matroska parser                     *)
(***************************************************************************)

\* where the i-th element of the input starts
StartOf(i) == Len(BytesOf(SubSeq(mkvPlan, 1, i - 1)))

\* the element that starts at the given offset of the input
ElementAt(off) ==
    IF \E i \in 1..Len(mkvPlan) : StartOf(i) = off
    THEN Catalog[mkvPlan[CHOOSE i \in 1..Len(mkvPlan) : StartOf(i) = off]]
    ELSE Element("none", <<>>, "none", <<>>)

\* the input holds no Segment and no Cluster
LeafPlan == \A i \in 1..Len(mkvPlan) : Catalog[mkvPlan[i]].kind # "cluster"
WellFormedLeafPlan ==
    \A i \in 1..Len(mkvPlan) : Catalog[mkvPlan[i]].kind = "leaf"

\* what the last call added to the parser state
NewEvents ==
    SubSeq(parserState.events, mkvLast.before + 1, Len(parserState.events))

\* the reasons for which expectSegment itself reports 'incomplete'
MissingBytes == {"no bytes", "id", "length", "payload"}

\* C2: when expectSegment returns 'incomplete' because the id, the size VINT
\* or the payload of an element other than Segment/Cluster is not buffered,
\* the iterator is back at the offset it had on entry and no segment is
\* returned.
C2_IncompleteRestoresOffset ==
    (mkvStatus = "incomplete" /\ mkvLast.reason \in MissingBytes) =>
        /\ mkvOffset = mkvLast.entry
        /\ mkvLast.segments = <<>>

\* the size VINT of the second element is cut in two
C2_Witness ==
    /\ mkvStatus = "incomplete"
    /\ mkvLast.reason = "length"
    /\ mkvLast.entry > 0
    /\ mkvArrived = mkvLast.entry + 2
    /\ mkvOffset = mkvLast.entry

\* the parse of the complete input in one go
RECURSIVE OneShot(_, _, _)
oneShotStep(r, segments) ==
    IF r.status = "done"
    THEN OneShot(r.offset, r.pstate, segments \o r.segments)
    ELSE [status |-> r.status, segments |-> segments, pstate |-> r.pstate,
          error |-> r.error]
OneShot(off, pstate, segments) ==
    IF off >= Len(mkvStream)
    THEN [status |-> "done", segments |-> segments, pstate |-> pstate,
          error |-> ""]
    ELSE oneShotStep(expectSegment(mkvStream, off, pstate), segments)

Finished ==
    \/ mkvStatus = "error"
    \/ mkvStatus = "done" /\ mkvOffset >= Len(mkvStream)

RECURSIVE EffectsOf(_)
EffectsOf(plan) ==
    IF plan = <<>> THEN <<>>
    ELSE Catalog[Head(plan)].effects \o EffectsOf(Tail(plan))

EventNames(events) == [k \in 1..Len(events) |-> events[k].ev]

SameAsOneShot(o) ==
    /\ mkvStatus = o.status
    /\ mkvSegments = o.segments
    /\ parserState = o.pstate
    /\ mkvLast.error = o.error

\* C3: for leaf elements and any split of their bytes into arrivals,
\* expectSegment followed by continueParsing ends as the one-shot parse of the
\* complete bytes does: 'done' with the same elements and with each side
\* effect of an element exactly once, and a call that returns 'incomplete'
\* has no side effect and returns no segment.
C3_SplitParseEqualsOneShot ==
    LeafPlan =>
        /\ mkvStatus = "incomplete" =>
              /\ Len(parserState.events) = mkvLast.before
              /\ mkvLast.segments = <<>>
        /\ Finished => SameAsOneShot(OneShot(0, InitialParserState, <<>>))
        /\ (Finished /\ WellFormedLeafPlan) =>
              /\ mkvStatus = "done"
              /\ Len(mkvSegments) = Len(mkvPlan)
              /\ EventNames(parserState.events) = EffectsOf(mkvPlan)

\* the second of two elements with side effects is completed by
\* continueParsing
C3_Witness ==
    /\ WellFormedLeafPlan
    /\ Len(mkvPlan) = 2
    /\ Finished
    /\ mkvStatus = "done"
    /\ mkvLast.call = "continueParsing"
    /\ mkvLast.entry > 0
    /\ Len(NewEvents) = 2
    /\ Len(mkvSegments) = 2

\* the ids of the children in the payload of an element with one-byte sizes
RECURSIVE ChildIdsFrom(_, _)
ChildIdsFrom(bytes, pos) ==
    IF pos + 1 > Len(bytes) THEN <<>>
    ELSE <<bytes[pos]>> \o ChildIdsFrom(bytes, pos + 2 + (bytes[pos + 1] % 128))

HasChild(e, id) ==
    \E k \in 1..Len(ChildIdsFrom(e.bytes, 3)) : ChildIdsFrom(e.bytes, 3)[k] = id

\* the track number of the Block of a BlockGroup whose first child is the Block
BlockTrack(e) == e.bytes[5] % 128

IsBlockGroup(e) == e.kind # "none" /\ e.bytes[1] = 160

VideoSamples(events) == SelectSeq(events, LAMBDA e : e.ev = "onVideoSample")

\* C10: a BlockGroup whose Block is of a video track calls onVideoSample once,
\* with 'key' without a ReferenceBlock child and 'delta' with one; a Block of
\* another track calls it not at all; a BlockGroup without a Block fails with
\* 'Expected block segment'.
C10_BlockGroupFrameType ==
    (LeafPlan /\ mkvStatus \in {"done", "error"}
        /\ IsBlockGroup(ElementAt(mkvLast.entry))) =>
        LET e == ElementAt(mkvLast.entry) IN
          IF ~HasChild(e, 161)
          THEN mkvStatus = "error" /\ mkvLast.error = "Expected block segment"
          ELSE /\ mkvStatus = "done"
               /\ VideoSamples(NewEvents) =
                    IF parserState.trackEntries[BlockTrack(e)] = "video"
                    THEN <<Event("onVideoSample", BlockTrack(e), 0,
                                 IF HasChild(e, 251) THEN "delta" ELSE "key")>>
                    ELSE <<>>

\* a BlockGroup with a ReferenceBlock was parsed after another element
C10_Witness ==
    /\ mkvStatus = "done"
    /\ LeafPlan
    /\ mkvLast.entry > 0
    /\ ElementAt(mkvLast.entry).name = "BlockGroupDelta"
    /\ NewEvents = <<Event("onVideoSample", 1, 0, "delta")>>

(***************************************************************************)
(*                     The controller: convertMedia                         *)
(***************************************************************************)

\* How many samples parseMedia delivers at most.
MaxSamples == 2

\* availableContainers, availableVideoCodecs, availableAudioCodecs
Containers == {"webm", "mp4"}
VideoCodecs == {"vp8", "vp9", "h264"}
AudioCodecs == {"opus", "aac"}

Kinds == {"video", "audio"}

\* the video tracks parseMedia may find: a track whose display size differs
\* from its coded size
VideoTracks ==
    { [codec |-> "vp8", codedWidth |-> 4, codedHeight |-> 2,
       displayAspectWidth |-> 6, displayAspectHeight |-> 2] }

\* the audio tracks parseMedia may find
AudioTracks == { [codec |-> "opus"] }

\* the three checks of the arguments (lines 49-65): the message of the
\* TypeError, or "" when the arguments pass
validateWithoutVideoCodec(to, videoCodec, audioCodec) ==
    IF to # "webm" THEN "Only to: webm is supported currently"
    ELSE IF audioCodec # "opus"
    THEN "Only audioCodec: opus is supported currently"
    ELSE ""
validate(to, videoCodec, audioCodec) ==
    IF to # "webm" THEN "Only to: webm is supported currently"
    ELSE IF audioCodec # "opus"
    THEN "Only audioCodec: opus is supported currently"
    ELSE IF videoCodec # "vp8"
    THEN "Only videoCodec: vp8 is supported currently"
    ELSE ""

\* promises: withResolvers, Promise.reject
Pending == [status |-> "pending", name |-> "", error |-> "", cause |-> <<>>]
Rejected(name, error, cause) ==
    [status |-> "rejected", name |-> name, error |-> error, cause |-> cause]
\* reject and resolve settle a promise that is pending and nothing else
reject(p, name, error, cause) ==
    IF p.status = "pending" THEN Rejected(name, error, cause) ELSE p
resolve(p) ==
    IF p.status = "pending"
    THEN [status |-> "resolved", name |-> "", error |-> "", cause |-> <<>>]
    ELSE p

\* codecNameToMatroskaCodecId, codecNameToMatroskaAudioCodecId
codecNameToMatroskaCodecId(videoCodec) ==
    IF videoCodec = "vp8" THEN "V_VP8"
    ELSE IF videoCodec = "vp9" THEN "V_VP9" ELSE "V_MPEG4/ISO/AVC"
codecNameToMatroskaAudioCodecId(audioCodec) ==
    IF audioCodec = "opus" THEN "A_OPUS" ELSE "A_AAC"

NoStage ==
    [inputCodec |-> "", encoder |-> "none", decoder |-> "none",
     callback |-> FALSE, trackNumber |-> 0, width |-> 0, height |-> 0,
     queued |-> 0, inFrame |-> 0, frames |-> 0, inChunk |-> <<>>,
     chunks |-> 0, drained |-> FALSE, released |-> 0, unreleased |-> 0]

\* the arguments convertMedia may be called with
ConvertArgs ==
    [to : Containers, videoCodec : VideoCodecs, audioCodec : AudioCodecs,
     onVideoFrame : BOOLEAN]

\* the promise of a conversion that was not called yet
NoPromise == [status |-> "none", name |-> "", error |-> "", cause |-> <<>>]

\* the counters, the media and the parser before convertMedia runs
NoCounters ==
    [decodedAudioFrames |-> 0, decodedVideoFrames |-> 0,
     encodedVideoFrames |-> 0, encodedAudioFrames |-> 0]

NoMedia ==
    [created |-> FALSE, tracks |-> <<>>, samples |-> <<>>, duration |-> 0,
     finishers |-> {}]

NoParser == [started |-> FALSE, undiscovered |-> {}, samplesLeft |-> 0]

InitConvert ==
    /\ convArgs \in ConvertArgs
    /\ convPc = "start"
    /\ promise = NoPromise
    /\ signal = [aborted |-> FALSE]
    /\ convertMediaState = NoCounters
    /\ state = NoMedia
    /\ parser = NoParser
    /\ stages = [k \in Kinds |-> NoStage]
    /\ updates = <<>>
    /\ IdleMoof
    /\ IdleMkv
    /\ IdleCalls
    /\ IdleUi

\* onMediaStateUpdate?.({...convertMediaState}) and, where the object itself
\* is passed, onMediaStateUpdate?.(convertMediaState)
\* what the observer holds once the counters are `counters`: a state that was
\* delivered uncopied is the object convertMediaState itself
held(counters) ==
    [k \in 1..Len(updates) |->
        IF updates[k].copied THEN updates[k]
        ELSE [updates[k] EXCEPT !.counters = counters]]

onMediaStateUpdate(copied, counters) ==
    Append(held(counters),
           [copied |-> copied, counters |-> counters, atCall |-> counters])

\* convertMedia up to its first await (lines 49-90): the checks, then the
\* promise, the AbortController and the counters
CallConvertMedia ==
    /\ convPc = "start"
    /\ IF validate(convArgs.to, convArgs.videoCodec, convArgs.audioCodec) # ""
       THEN /\ promise' = Rejected("TypeError",
                                   validate(convArgs.to, convArgs.videoCodec,
                                            convArgs.audioCodec), <<>>)
            /\ convPc' = "returned"
       ELSE /\ promise' = Pending
            /\ convPc' = "createMedia"
    /\ UNCHANGED <<convArgs, signal, convertMediaState, state, parser, stages,
                   updates>>
    /\ UNCHANGED <<moofVars, mkvVars, callVars, uiVars>>

\* createMedia has returned; parseMedia is started (lines 90, 247-251) on an
\* input with the given tracks
CreateMedia ==
    /\ convPc = "createMedia"
    /\ \E found \in (SUBSET Kinds) \ {{}} :
          parser' = [started |-> TRUE, undiscovered |-> found,
                     samplesLeft |-> MaxSamples]
    /\ state' = [state EXCEPT !.created = TRUE]
    /\ convPc' = "parsing"
    /\ UNCHANGED <<convArgs, promise, signal, convertMediaState, stages,
                   updates>>
    /\ UNCHANGED <<moofVars, mkvVars, callVars, uiVars>>

\* createVideoEncoder, createVideoDecoder, createAudioEncoder and
\* createAudioDecoder are handed the signal (lines 107-128, 135-154, 180-200,
\* 207-227): a stage is not created once the signal is aborted
createRefused(sig) == sig.aborted

\* abort() reaches the stages that were handed the signal: each closes and
\* drops the work it still holds
observeAbort(stage) ==
    [stage EXCEPT !.encoder = IF @ = "open" THEN "closed" ELSE @,
                  !.decoder = IF @ = "open" THEN "closed" ELSE @,
                  !.queued = 0,
                  !.frames = 0]

\* onVideoTrack (lines 92-171)
OnVideoTrack ==
    /\ convPc = "parsing"
    /\ "video" \in parser.undiscovered
    /\ \E track \in VideoTracks, videoEncoder \in {"open", "null"},
          videoDecoder \in {"open", "null"} :
          LET trackNumber == Len(state.tracks) + 1
              added == Append(state.tracks,
                              [type |-> "video",
                               width |-> track.codedWidth,
                               height |-> track.codedHeight,
                               codecId |-> codecNameToMatroskaCodecId(
                                               convArgs.videoCodec)])
              made == [NoStage EXCEPT
                         !.inputCodec = track.codec,
                         !.trackNumber = trackNumber,
                         !.width = track.displayAspectWidth,
                         !.height = track.displayAspectHeight]
          IN  IF createRefused(signal)
              THEN /\ stages' = stages
                   /\ updates' = updates
                   /\ state' = [state EXCEPT !.tracks = added]
              ELSE IF videoEncoder = "null"
              THEN /\ stages' = [stages EXCEPT
                                   !["video"] = [made EXCEPT !.encoder = "null"]]
                   /\ updates' = onMediaStateUpdate(TRUE, convertMediaState)
                   /\ state' = [state EXCEPT !.tracks = added]
              ELSE IF videoDecoder = "null"
              THEN /\ stages' = [stages EXCEPT
                                   !["video"] = [made EXCEPT
                                                   !.encoder = "open",
                                                   !.decoder = "null"]]
                   /\ updates' = onMediaStateUpdate(TRUE, convertMediaState)
                   /\ state' = [state EXCEPT !.tracks = added]
              ELSE /\ stages' = [stages EXCEPT
                                   !["video"] = [made EXCEPT
                                                   !.encoder = "open",
                                                   !.decoder = "open",
                                                   !.callback = TRUE]]
                   /\ updates' = updates
                   /\ state' = [state EXCEPT
                                  !.tracks = added,
                                  !.finishers = @ \cup {"video"}]
    /\ parser' = [parser EXCEPT !.undiscovered = @ \ {"video"}]
    /\ convPc' = IF createRefused(signal) THEN "done" ELSE convPc
    /\ promise' = IF createRefused(signal)
                  THEN reject(promise, "Error", "already aborted", <<>>)
                  ELSE promise
    /\ UNCHANGED <<convArgs, signal, convertMediaState>>
    /\ UNCHANGED <<moofVars, mkvVars, callVars, uiVars>>

\* onAudioTrack (lines 173-245)
OnAudioTrack ==
    /\ convPc = "parsing"
    /\ "audio" \in parser.undiscovered
    /\ \E track \in AudioTracks, audioEncoder \in {"open", "null"},
          audioDecoder \in {"open", "null"} :
          LET trackNumber == Len(state.tracks) + 1
              added == Append(state.tracks,
                              [type |-> "audio", width |-> 0, height |-> 0,
                               codecId |-> codecNameToMatroskaAudioCodecId(
                                               convArgs.audioCodec)])
              made == [NoStage EXCEPT !.inputCodec = track.codec,
                                      !.trackNumber = trackNumber]
          IN  IF createRefused(signal)
              THEN /\ stages' = stages
                   /\ updates' = updates
                   /\ state' = [state EXCEPT !.tracks = added]
              ELSE IF audioEncoder = "null"
              THEN /\ stages' = [stages EXCEPT
                                   !["audio"] = [made EXCEPT !.encoder = "null"]]
                   /\ updates' = onMediaStateUpdate(TRUE, convertMediaState)
                   /\ state' = [state EXCEPT !.tracks = added]
              ELSE IF audioDecoder = "null"
              THEN /\ stages' = [stages EXCEPT
                                   !["audio"] = [made EXCEPT
                                                   !.encoder = "open",
                                                   !.decoder = "null"]]
                   /\ updates' = onMediaStateUpdate(FALSE, convertMediaState)
                   /\ state' = [state EXCEPT !.tracks = added]
              ELSE /\ stages' = [stages EXCEPT
                                   !["audio"] = [made EXCEPT
                                                   !.encoder = "open",
                                                   !.decoder = "open",
                                                   !.callback = TRUE]]
                   /\ updates' = updates
                   /\ state' = [state EXCEPT
                                  !.tracks = added,
                                  !.finishers = @ \cup {"audio"}]
    /\ parser' = [parser EXCEPT !.undiscovered = @ \ {"audio"}]
    /\ convPc' = IF createRefused(signal) THEN "done" ELSE convPc
    /\ promise' = IF createRefused(signal)
                  THEN reject(promise, "Error", "already aborted", <<>>)
                  ELSE promise
    /\ UNCHANGED <<convArgs, signal, convertMediaState>>
    /\ UNCHANGED <<moofVars, mkvVars, callVars, uiVars>>

\* the callback a track handler returned is given a sample (lines 168-170,
\* 242-244): decoder.processSample; a closed decoder takes nothing
ProcessSample ==
    /\ convPc = "parsing"
    /\ parser.samplesLeft > 0
    /\ \E kind \in Kinds :
          /\ stages[kind].callback
          /\ stages' = [stages EXCEPT ![kind].queued =
                          IF stages[kind].decoder = "open" THEN @ + 1 ELSE @]
    /\ parser' = [parser EXCEPT !.samplesLeft = @ - 1]
    /\ UNCHANGED <<convArgs, convPc, promise, signal, convertMediaState, state,
                   updates>>
    /\ UNCHANGED <<moofVars, mkvVars, callVars, uiVars>>

\* a decoder emits a frame: its onFrame starts and suspends at its first await
\* (lines 137-138, 210-211)
OnFrame ==
    /\ \E kind \in Kinds :
          /\ stages[kind].decoder = "open"
          /\ stages[kind].queued > 0
          /\ stages' = [stages EXCEPT ![kind].queued = @ - 1,
                                      ![kind].inFrame = @ + 1]
    /\ UNCHANGED <<convArgs, convPc, promise, signal, convertMediaState, state,
                   parser, updates>>
    /\ UNCHANGED <<moofVars, mkvVars, callVars, uiVars>>

\* encodeFrame / encodeAudioData has taken the frame, unless the encoder is
\* closed. The encoder gets the frame at the end of encodeFrame, and onFrame
\* resumes from that await before the encoder can call onChunk for it: the
\* hand-over and the rest of onFrame are one step
encodeFrame(stage) ==
    [stage EXCEPT !.inFrame = @ - 1,
                  !.frames = IF stage.encoder = "open" THEN @ + 1 ELSE @]

\* frame.close() at the end of onFrame (lines 142, 215)
closeFrame(stage) == [stage EXCEPT !.released = @ + 1]

\* what can reject inside onFrame before its last statement: the hook of the
\* caller, for a video frame when a hook was given (line 138), and
\* encodeFrame (lines 139, 211)
rejections(kind) ==
    IF kind = "video" /\ convArgs.onVideoFrame
    THEN {"onVideoFrame", "encodeFrame"}
    ELSE {"encodeFrame"}

\* onFrame ends at a rejected await (lines 138-139, 211): the statements
\* after it, frame.close() among them, do not run
OnFrameRejected ==
    /\ \E kind \in Kinds :
          /\ stages[kind].inFrame > 0
          /\ \E at \in rejections(kind) :
                stages' = [stages EXCEPT ![kind].inFrame = @ - 1,
                                        ![kind].unreleased = @ + 1]
    /\ UNCHANGED <<convArgs, convPc, promise, signal, convertMediaState, state,
                   parser, updates>>
    /\ UNCHANGED <<moofVars, mkvVars, callVars, uiVars>>

\* a frame that went through onFrame without being counted
frameNotCounted(counters, kind) == counters

\* convertMediaState.decodedVideoFrames++ (line 140),
\* convertMediaState.decodedAudioFrames++ (line 213)
frameDecoded(counters, kind) ==
    IF kind = "video"
    THEN [counters EXCEPT !.decodedVideoFrames = @ + 1]
    ELSE [counters EXCEPT !.decodedAudioFrames = @ + 1]

\* convertMediaState.encodedVideoFrames++ (line 115),
\* convertMediaState.encodedAudioFrames++ (line 184)
chunkEncoded(counters, kind) ==
    IF kind = "video"
    THEN [counters EXCEPT !.encodedVideoFrames = @ + 1]
    ELSE [counters EXCEPT !.encodedAudioFrames = @ + 1]

\* onFrame of the video decoder resumes (lines 139-142)
OnVideoFrame ==
    /\ stages["video"].inFrame > 0
    /\ stages' = [stages EXCEPT !["video"] = closeFrame(encodeFrame(@))]
    /\ convertMediaState' = frameDecoded(convertMediaState, "video")
    /\ updates' = onMediaStateUpdate(TRUE, convertMediaState')
    /\ UNCHANGED <<convArgs, convPc, promise, signal, state, parser>>
    /\ UNCHANGED <<moofVars, mkvVars, callVars, uiVars>>

\* onFrame of the audio decoder resumes (lines 211-216)
OnAudioFrame ==
    /\ stages["audio"].inFrame > 0
    /\ stages' = [stages EXCEPT !["audio"] = closeFrame(encodeFrame(@))]
    /\ convertMediaState' = frameDecoded(convertMediaState, "audio")
    /\ updates' = onMediaStateUpdate(FALSE, convertMediaState')
    /\ UNCHANGED <<convArgs, convPc, promise, signal, state, parser>>
    /\ UNCHANGED <<moofVars, mkvVars, callVars, uiVars>>

\* the n-th chunk an encoder emits, in microseconds
chunkOf(n) == [timestamp |-> n * 1500, duration |-> 1500]

\* Math.round((chunk.timestamp + (chunk.duration ?? 0)) / 1000)
newDuration(chunk) == (chunk.timestamp + chunk.duration + 500) \div 1000

\* state.addSample(chunk, trackNumber)
addSample(media, chunk, trackNumber) ==
    [media EXCEPT !.samples = Append(@, [trackNumber |-> trackNumber,
                                          timestamp |-> chunk.timestamp])]

\* state.updateDuration(newDuration)
updateDuration(media, duration) ==
    [media EXCEPT !.duration = IF duration > @ THEN duration ELSE @]

\* an encoder emits a chunk: its onChunk starts, calls state.addSample and
\* suspends (lines 109-110, 182-183)
OnChunk ==
    /\ \E kind \in Kinds :
          /\ stages[kind].encoder = "open"
          /\ stages[kind].frames > 0
          /\ LET chunk == chunkOf(stages[kind].chunks) IN
                /\ state' = addSample(state, chunk, stages[kind].trackNumber)
                /\ stages' = [stages EXCEPT ![kind].frames = @ - 1,
                                            ![kind].chunks = @ + 1,
                                            ![kind].inChunk = Append(@, chunk)]
    /\ UNCHANGED <<convArgs, convPc, promise, signal, convertMediaState, parser,
                   updates>>
    /\ UNCHANGED <<moofVars, mkvVars, callVars, uiVars>>

\* onChunk of the video encoder resumes (lines 111-116)
OnVideoChunk ==
    /\ stages["video"].inChunk # <<>>
    /\ state' = updateDuration(state,
                               newDuration(Head(stages["video"].inChunk)))
    /\ stages' = [stages EXCEPT !["video"].inChunk = Tail(@)]
    /\ convertMediaState' = chunkEncoded(convertMediaState, "video")
    /\ updates' = onMediaStateUpdate(TRUE, convertMediaState')
    /\ UNCHANGED <<convArgs, convPc, promise, signal, parser>>
    /\ UNCHANGED <<moofVars, mkvVars, callVars, uiVars>>

\* onChunk of the audio encoder resumes (lines 184-185)
OnAudioChunk ==
    /\ stages["audio"].inChunk # <<>>
    /\ stages' = [stages EXCEPT !["audio"].inChunk = Tail(@)]
    /\ convertMediaState' = chunkEncoded(convertMediaState, "audio")
    /\ updates' = onMediaStateUpdate(TRUE, convertMediaState')
    /\ UNCHANGED <<convArgs, convPc, promise, signal, state, parser>>
    /\ UNCHANGED <<moofVars, mkvVars, callVars, uiVars>>

\* the error abortConversion rejects with (lines 71-79)
abortErrorWithoutCause(errCause) ==
    [name |-> "Error", error |-> "Conversion aborted", cause |-> <<>>]

abortError(errCause) ==
    IF errCause = <<>>
    THEN [name |-> "Error", error |-> "Conversion aborted", cause |-> <<>>]
    ELSE [name |-> "Error",
          error |-> "Conversion aborted (see .cause of this error)",
          cause |-> errCause]

\* abortConversion (lines 70-82): reject, then abort()
abortConversionRejectOnly(errCause) ==
    /\ promise' = reject(promise, abortError(errCause).name,
                         abortError(errCause).error,
                         abortError(errCause).cause)
    /\ UNCHANGED <<signal, stages>>

abortConversion(errCause) ==
    /\ promise' = reject(promise, abortError(errCause).name,
                         abortError(errCause).error,
                         abortError(errCause).cause)
    /\ signal' = [aborted |-> TRUE]
    /\ stages' = [kind \in Kinds |-> observeAbort(stages[kind])]

\* the error a failing encoder or decoder hands to its onError
codecError(kind, part) == kind \o " " \o part \o ": EncodingError"

\* new Error(`... failed (see .cause of this error)`, {cause: err}) (lines
\* 119-126, 145-152, 191-198, 218-225), as the chain of its causes
failed(kind, part, err) == <<kind \o " " \o part \o " failed", err>>

\* onError of an encoder or a decoder (lines 118-127, 144-153, 190-199,
\* 217-226)
OnError ==
    /\ \E kind \in Kinds, part \in {"encoder", "decoder"} :
          /\ stages[kind][part] = "open"
          /\ abortConversion(failed(kind, part, codecError(kind, part)))
    /\ UNCHANGED <<convArgs, convPc, convertMediaState, state, parser, updates>>
    /\ UNCHANGED <<moofVars, mkvVars, callVars, uiVars>>

\* parseMedia resolves: state.waitForFinish() is called (lines 252-254)
ParseMediaDone ==
    /\ convPc = "parsing"
    /\ parser.undiscovered = {}
    /\ convPc' = "waitForFinish"
    /\ UNCHANGED <<convArgs, promise, signal, convertMediaState, state, parser,
                   stages, updates>>
    /\ UNCHANGED <<moofVars, mkvVars, callVars, uiVars>>

\* parseMedia rejects: reject(err) (lines 258-260)
ParseMediaFails ==
    /\ convPc = "parsing"
    /\ promise' = reject(promise, "Error", "parseMedia failed", <<>>)
    /\ convPc' = "done"
    /\ UNCHANGED <<convArgs, signal, convertMediaState, state, parser, stages,
                   updates>>
    /\ UNCHANGED <<moofVars, mkvVars, callVars, uiVars>>

\* decoder.waitForFinish(): every sample given to the decoder has come out
\* and its onFrame has run
decoderFinished(stage) == stage.queued = 0 /\ stage.inFrame = 0

\* encoder.waitForFinish(): every frame given to the encoder has come out
\* and its onChunk has run
encoderFinished(stage) == stage.frames = 0 /\ stage.inChunk = <<>>

\* a function given to addWaitForFinishPromise passes its first await (lines
\* 162, 236): the decoder has drained
DecoderFinished ==
    /\ convPc = "waitForFinish"
    /\ \E kind \in state.finishers :
          /\ ~stages[kind].drained
          /\ decoderFinished(stages[kind])
          /\ stages' = [stages EXCEPT ![kind].drained = TRUE]
    /\ UNCHANGED <<convArgs, convPc, promise, signal, convertMediaState, state,
                   parser, updates>>
    /\ UNCHANGED <<moofVars, mkvVars, callVars, uiVars>>

\* what the function waits for before it closes the two (lines 162-163,
\* 236-237)
closesAfterDecoder(stage) == stage.drained

closesAfterEncoder(stage) == stage.drained /\ encoderFinished(stage)

\* the function passes its second await and runs to its end (lines 163-165,
\* 237-239): the encoder has drained, decoder and encoder are closed
Finisher ==
    /\ convPc = "waitForFinish"
    /\ \E kind \in state.finishers :
          /\ closesAfterEncoder(stages[kind])
          /\ stages' = [stages EXCEPT
                          ![kind].decoder = "closed",
                          ![kind].encoder = "closed"]
          /\ state' = [state EXCEPT !.finishers = @ \ {kind}]
    /\ UNCHANGED <<convArgs, convPc, promise, signal, convertMediaState, parser,
                   updates>>
    /\ UNCHANGED <<moofVars, mkvVars, callVars, uiVars>>

\* state.waitForFinish() resolves: resolve({save: state.save}) (lines 255-257)
WaitForFinishDone ==
    /\ convPc = "waitForFinish"
    /\ state.finishers = {}
    /\ promise' = resolve(promise)
    /\ convPc' = "done"
    /\ UNCHANGED <<convArgs, signal, convertMediaState, state, parser, stages,
                   updates>>
    /\ UNCHANGED <<moofVars, mkvVars, callVars, uiVars>>

NextConvert ==
    \/ CallConvertMedia
    \/ CreateMedia
    \/ OnVideoTrack
    \/ OnAudioTrack
    \/ ProcessSample
    \/ OnFrame
    \/ OnFrameRejected
    \/ OnVideoFrame
    \/ OnAudioFrame
    \/ OnChunk
    \/ OnVideoChunk
    \/ OnAudioChunk
    \/ OnError
    \/ ParseMediaDone
    \/ ParseMediaFails
    \/ DecoderFinished
    \/ Finisher
    \/ WaitForFinishDone

SpecConvert == InitConvert /\ [][NextConvert]_vars

\* the event loop keeps running what is ready to run
SpecConvertFair == SpecConvert /\ WF_vars(NextConvert)

(***************************************************************************)
(*                        Claims about convertMedia                         *)
(***************************************************************************)

Supported(args) ==
    args.to = "webm" /\ args.videoCodec = "vp8" /\ args.audioCodec = "opus"

\* C1: every combination other than (webm, vp8, opus) is rejected, and before
\* any I/O: createMedia is not called, parseMedia is not started, no track is
\* added and no state is delivered to onMediaStateUpdate; (webm, vp8, opus)
\* is not rejected by the checks.
C1_UnsupportedRejectedBeforeIO ==
    /\ (convPc # "start" /\ ~Supported(convArgs)) =>
          /\ convPc = "returned"
          /\ promise.status = "rejected"
          /\ promise.name = "TypeError"
          /\ ~state.created
          /\ ~parser.started
          /\ state.tracks = <<>>
          /\ updates = <<>>
    /\ (convPc # "start" /\ Supported(convArgs)) =>
          /\ convPc # "returned"
          /\ promise.name # "TypeError"

\* convertMedia was called with a combination that only the last check rejects
C1_Witness ==
    /\ convArgs.to = "webm"
    /\ convArgs.videoCodec = "vp9"
    /\ convArgs.audioCodec = "opus"
    /\ convPc = "returned"
    /\ promise.status = "rejected"

(***************************************************************************)
(*                           canCopyVideoTrack                              *)
(***************************************************************************)

\* How many calls of a function are made at most.
MaxCalls == 2

\* MediaParserVideoCodec
MediaParserVideoCodecs == {"h264", "h265", "vp8", "vp9", "av1", "prores"}

\* ConvertMediaContainer, and a value outside of it
CopyContainers == {"webm", "mp4", "mkv"}

ReturnedValue(v) == [threw |-> FALSE, value |-> v]
ThrownError == [threw |-> TRUE, value |-> FALSE]

canCopyVideoTrackOnlyVp8(inputCodec, container) ==
    IF container = "webm"
    THEN ReturnedValue(inputCodec = "vp8")
    ELSE IF container = "mp4"
    THEN ReturnedValue(inputCodec = "h264" \/ inputCodec = "h265")
    ELSE ThrownError
canCopyVideoTrack(inputCodec, container) ==
    IF container = "webm"
    THEN ReturnedValue(inputCodec = "vp8" \/ inputCodec = "vp9")
    ELSE IF container = "mp4"
    THEN ReturnedValue(inputCodec = "h264" \/ inputCodec = "h265")
    ELSE ThrownError

InitCopy ==
    /\ calls = <<>>
    /\ IdleMoof
    /\ IdleMkv
    /\ IdleConvert
    /\ IdleUi

CallCanCopyVideoTrack ==
    /\ Len(calls) < MaxCalls
    /\ \E inputCodec \in MediaParserVideoCodecs, container \in CopyContainers :
          calls' = Append(calls,
                          [inputCodec |-> inputCodec, container |-> container,
                           outcome |-> canCopyVideoTrack(inputCodec,
                                                         container)])
    /\ UNCHANGED <<moofVars, mkvVars, convVars, uiVars>>

NextCopy == CallCanCopyVideoTrack

SpecCopy == InitCopy /\ [][NextCopy]_vars

\* the pairs of container and codec the claim names
CopyPairs == { <<"webm", "vp8">>, <<"webm", "vp9">>, <<"mp4", "h264">>,
               <<"mp4", "h265">> }

\* C12: canCopyVideoTrack returns true exactly for (webm, vp8), (webm, vp9),
\* (mp4, h264), (mp4, h265), false for every other pair of webm or mp4 and a
\* video codec, and throws exactly for a container that is neither.
C12_CanCopyPairs ==
    \A k \in 1..Len(calls) :
        LET call == calls[k] IN
          /\ call.outcome.threw <=> call.container \notin {"webm", "mp4"}
          /\ ~call.outcome.threw =>
                (call.outcome.value <=>
                    <<call.container, call.inputCodec>> \in CopyPairs)

\* vp9 was asked for webm and answered true, then a container outside threw
C12_Witness ==
    /\ Len(calls) = 2
    /\ calls[1].container = "webm" /\ calls[1].inputCodec = "vp9"
    /\ calls[1].outcome = ReturnedValue(TRUE)
    /\ calls[2].container = "mkv" /\ calls[2].outcome.threw

\* the codecs a container carries natively: canCopyVideoTrack for video, opus
\* in webm and aac in mp4 for audio
NativelyCarried(kind, inputCodec, container) ==
    IF kind = "video" THEN canCopyVideoTrack(inputCodec, container).value
    ELSE \/ container = "webm" /\ inputCodec = "opus"
         \/ container = "mp4" /\ inputCodec = "aac"

\* C11: a track whose input codec the target container carries natively, with
\* no onVideoFrame hook given, gets neither a decoder nor an encoder.
C11_NativeTrackIsCopied ==
    \A kind \in Kinds :
        (/\ stages[kind].inputCodec # ""
         /\ NativelyCarried(kind, stages[kind].inputCodec, convArgs.to)
         /\ ~convArgs.onVideoFrame) =>
            /\ stages[kind].encoder \notin {"open", "closed"}
            /\ stages[kind].decoder \notin {"open", "closed"}

(***************************************************************************)
(*                             serializeTrack                               *)
(***************************************************************************)

ISO_BASE_TIMESCALE == 1000

\* MakeTrackVideo | MakeTrackAudio: the codecs of each type, with and without
\* codecPrivate
MakeTracks ==
    { t \in [type : {"video", "audio"},
             codec : {"h264", "vp8", "aac", "opus"},
             codecPrivate : {None, Some(7)}, trackNumber : {1},
             timescale : {48000}] :
        t.type = "video" <=> t.codec \in {"h264", "vp8"} }

DurationsInUnits == {0, 5}

NoTrak == [tkhd |-> [for |-> "none", duration |-> 0, trackId |-> 0],
           edts |-> [segmentDuration |-> 0, mediaTime |-> 0],
           mdhd |-> [duration |-> 0, timescale |-> 0],
           hdlr |-> "none"]

TrakThrown(message) == [threw |-> TRUE, message |-> message, trak |-> NoTrak]

\* createTrak({tkhd, edts, mdia}) (lines 42-112)
createTrak(track, durationInUnits) ==
    [threw |-> FALSE, message |-> "",
     trak |-> [tkhd |-> [for |-> IF track.codec = "aac" THEN "audio"
                                 ELSE IF track.type = "video" THEN "video"
                                 ELSE "wrong",
                         duration |-> durationInUnits,
                         trackId |-> track.trackNumber],
               edts |-> [segmentDuration |-> durationInUnits, mediaTime |-> 0],
               mdhd |-> [duration |-> durationInUnits,
                         timescale |-> ISO_BASE_TIMESCALE],
               hdlr |-> IF track.type = "video" THEN "video" ELSE "audio"]]

serializeTrackPrivateFirst(track, durationInUnits) ==
    IF ~track.codecPrivate.has
    THEN TrakThrown("Missing codecPrivate")
    ELSE IF track.codec # "h264" /\ track.codec # "aac"
    THEN TrakThrown("Currently only H.264 and AAC is supported")
    ELSE createTrak(track, durationInUnits)
serializeTrack(track, durationInUnits) ==
    IF track.codec # "h264" /\ track.codec # "aac"
    THEN TrakThrown("Currently only H.264 and AAC is supported")
    ELSE IF ~track.codecPrivate.has
    THEN TrakThrown("Missing codecPrivate")
    ELSE createTrak(track, durationInUnits)

InitTrak ==
    /\ calls = <<>>
    /\ IdleMoof
    /\ IdleMkv
    /\ IdleConvert
    /\ IdleUi

CallSerializeTrack ==
    /\ Len(calls) < MaxCalls
    /\ \E track \in MakeTracks, durationInUnits \in DurationsInUnits :
          calls' = Append(calls,
                          [track |-> track,
                           durationInUnits |-> durationInUnits,
                           outcome |-> serializeTrack(track, durationInUnits)])
    /\ UNCHANGED <<moofVars, mkvVars, convVars, uiVars>>

NextTrak == CallSerializeTrack

SpecTrak == InitTrak /\ [][NextTrak]_vars

\* C13: serializeTrack throws and returns no trak for a codec other than
\* h264 and aac, and for an h264 or aac track without codecPrivate; the codec
\* is checked first, so a track with both faults reports the codec.
C13_UnsupportedTrackFails ==
    \A k \in 1..Len(calls) :
        LET call == calls[k]
            supported == call.track.codec \in {"h264", "aac"}
        IN  /\ ~supported =>
                  /\ call.outcome.threw
                  /\ call.outcome.trak = NoTrak
                  /\ call.outcome.message =
                        "Currently only H.264 and AAC is supported"
            /\ (supported /\ ~call.track.codecPrivate.has) =>
                  /\ call.outcome.threw
                  /\ call.outcome.trak = NoTrak
                  /\ call.outcome.message = "Missing codecPrivate"
            /\ (supported /\ call.track.codecPrivate.has) =>
                  ~call.outcome.threw

\* a vp8 track without codecPrivate was refused for its codec, and an aac
\* track without codecPrivate for that
C13_Witness ==
    /\ Len(calls) = 2
    /\ calls[1].track.codec = "vp8" /\ ~calls[1].track.codecPrivate.has
    /\ calls[1].outcome.message = "Currently only H.264 and AAC is supported"
    /\ calls[2].track.codec = "aac" /\ ~calls[2].track.codecPrivate.has
    /\ calls[2].outcome.message = "Missing codecPrivate"

\* C14: once onChunk has run for an encoded chunk, of a video and of an audio
\* track alike, the duration of the output covers the end of that chunk (here
\* in the milliseconds that updateDuration is given) and the observer was
\* notified.
C14_DurationCoversEveryChunk ==
    \A kind \in Kinds :
        \A n \in 0..(stages[kind].chunks - Len(stages[kind].inChunk) - 1) :
            /\ state.duration >= newDuration(chunkOf(n))
            /\ updates # <<>>

\* C15: every state delivered to onMediaStateUpdate keeps the values the
\* counters had when it was delivered.
C15_DeliveredStatesAreCopies ==
    \A k \in 1..Len(updates) : updates[k].counters = updates[k].atCall

\* C16: the promise of convertMedia is resolved only after parseMedia has
\* completed and every function given to addWaitForFinishPromise has run to
\* its end: the decoder drained, then the encoder drained, then both closed;
\* and no sample is added to the output once the promise is resolved.
C16_FinishersDone ==
    \A kind \in Kinds :
        stages[kind].callback =>
            /\ stages[kind].drained
            /\ stages[kind].decoder = "closed"
            /\ stages[kind].encoder = "closed"
            /\ stages[kind].queued = 0
            /\ stages[kind].inFrame = 0
            /\ stages[kind].frames = 0

C16_ResolvedAfterFinishers ==
    /\ [](promise.status = "resolved" =>
             /\ convPc = "done"
             /\ parser.undiscovered = {}
             /\ state.finishers = {}
             /\ C16_FinishersDone)
    /\ [][promise.status = "resolved" =>
             state'.samples = state.samples]_vars

C16_Witness ==
    /\ promise.status = "resolved"
    /\ Len(state.samples) >= 2
    /\ \E kind \in Kinds : stages[kind].callback /\ stages[kind].chunks >= 1

\* C17: the promise of convertMedia settles at most once, so the first error
\* wins over every later resolve or reject; and a rejection that an onError of
\* an encoder or a decoder causes carries the error of that codec at the end
\* of its chain of causes.
C17_Settled == promise.status \in {"resolved", "rejected"}

C17_CodecErrors ==
    { codecError(kind, part) : kind \in Kinds, part \in {"encoder", "decoder"} }

C17_SettlesOnceWithCause ==
    /\ [][C17_Settled => promise' = promise]_vars
    /\ [][(~signal.aborted /\ signal'.aborted /\ promise.status = "pending") =>
             /\ promise'.status = "rejected"
             /\ promise'.cause # <<>>
             /\ promise'.cause[Len(promise'.cause)] \in C17_CodecErrors]_vars

C17_Witness ==
    /\ promise.status = "rejected"
    /\ Len(promise.cause) = 2
    /\ promise.cause[2] = codecError("video", "decoder")
    /\ convPc = "done"

\* C18: the abort signal is shared by the parser, every encoder and decoder
\* and the output: once abortConversion has run no encoder and no decoder is
\* open, the parser finds no further track and delivers no further sample, and
\* the output takes no further sample.
C18_AbortReachesAll ==
    /\ [](signal.aborted =>
             \A kind \in Kinds : /\ stages[kind].encoder # "open"
                                 /\ stages[kind].decoder # "open")
    /\ [][signal.aborted =>
             /\ parser' = parser
             /\ state'.samples = state.samples]_vars

\* C19: once the promise is rejected because of an abort, that is by a codec
\* error, no further state is delivered to onMediaStateUpdate, whatever onFrame
\* or onChunk is still running or starts later.
C19_NoUpdateAfterRejection ==
    [][(promise.status = "rejected" /\ signal.aborted) =>
          Len(updates') = Len(updates)]_vars

\* C20: when an encoder or a decoder fails after the first sample was
\* delivered, so that the conversion is aborted, the promise is eventually
\* settled and every encoder and decoder that was created is eventually
\* closed: also an encoder whose decoder could not be created, and the stages
\* of a conversion that is rejected before its finishers run.
C20_CodecFailed ==
    /\ promise.status = "rejected"
    /\ promise.cause # <<>>
    /\ parser.samplesLeft < MaxSamples

C20_AllClosed ==
    \A kind \in Kinds : /\ stages[kind].encoder \in {"none", "null", "closed"}
                        /\ stages[kind].decoder \in {"none", "null", "closed"}

C21_EveryFrameReleased ==
    \A kind \in Kinds : stages[kind].unreleased = 0

\* C22: the output holds a track only when the encoder and the decoder of that
\* track were created: a track whose encoder or decoder came back null has no
\* entry in the output.
C22_TrackHasStage ==
    \A n \in 1..Len(state.tracks) :
        \E kind \in Kinds :
            /\ stages[kind].trackNumber = n
            /\ stages[kind].encoder \in {"open", "closed"}
            /\ stages[kind].decoder \in {"open", "closed"}

\* C23: for every TrackEntry, onTrackEntrySegment runs before the track is
\* registered; a track is registered at most once per TrackEntry and only when
\* getTrack yields a track; and the timescale it is given is the one the last
\* TimestampScale before the TrackEntry has set, whatever is set afterwards.
C23_SetBefore(k) ==
    { j \in 1..(k - 1) : parserState.events[j].ev = "setTimescale" }

C23_TimescaleAt(k) ==
    IF C23_SetBefore(k) = {} THEN InitialParserState.timescale
    ELSE parserState.events[CHOOSE j \in C23_SetBefore(k) :
                               \A m \in C23_SetBefore(k) : m <= j].a

C23_TrackEntryThenRegister ==
    \A k \in 1..Len(parserState.events) :
        LET e == parserState.events[k] IN
            /\ e.ev = "registerTrack" =>
                  /\ k > 1
                  /\ parserState.events[k - 1].ev = "onTrackEntrySegment"
                  /\ parserState.events[k - 1].a = e.a
                  /\ parserState.events[k - 1].t \in {"video", "audio"}
                  /\ e.b = C23_TimescaleAt(k)
            /\ (e.ev = "onTrackEntrySegment" /\ e.t \notin {"video", "audio"}) =>
                  (k < Len(parserState.events) =>
                      parserState.events[k + 1].ev # "registerTrack")

C23_Witness ==
    /\ Len(parserState.events) = 3
    /\ parserState.events[1].ev = "setTimescale"
    /\ parserState.events[2].ev = "onTrackEntrySegment"
    /\ parserState.events[3].ev = "registerTrack"
    /\ parserState.events[3].b = 9

\* C24: in the trak serializeTrack returns, the timescale of mdhd is the
\* timescale of the track, and tkhd.duration, the segmentDuration of the edit
\* list and mdhd.duration are all the durationInUnits it was given.
C24_TrakTimescaleAndDurations ==
    \A k \in 1..Len(calls) :
        LET call == calls[k] IN
            ~call.outcome.threw =>
                /\ call.outcome.trak.mdhd.timescale = call.track.timescale
                /\ call.outcome.trak.tkhd.duration = call.durationInUnits
                /\ call.outcome.trak.edts.segmentDuration = call.durationInUnits
                /\ call.outcome.trak.mdhd.duration = call.durationInUnits

(***************************************************************************)
(*                     ConvertUI (ConvertUi.tsx)                            *)
(***************************************************************************)

\* useState<ConvertState>({type: 'idle'}) (line 26), the AbortController of
\* onClick (line 32) and what the closures of onClick have done so far
InitialUi ==
    [type |-> "idle", error |-> "", clicked |-> FALSE, seen |-> 0,
     settled |-> FALSE, aborted |-> FALSE, thrown |-> ""]

\* what onClick hands to convertMedia (lines 23-25, 42, 60-62)
UiArgs ==
    [to |-> "webm", videoCodec |-> "vp8", audioCodec |-> "opus",
     onVideoFrame |-> TRUE]

\* the component is mounted: nothing was converted yet
InitUi ==
    /\ ui = InitialUi
    /\ convArgs = UiArgs
    /\ convPc = "idle"
    /\ promise = NoPromise
    /\ signal = [aborted |-> FALSE]
    /\ convertMediaState = NoCounters
    /\ state = NoMedia
    /\ parser = NoParser
    /\ stages = [k \in Kinds |-> NoStage]
    /\ updates = <<>>
    /\ IdleMoof
    /\ IdleMkv
    /\ IdleCalls

\* onClick (lines 31-71): the Convert button is shown in the idle state; a new
\* AbortController is made and convertMedia is called. One conversion is
\* followed.
OnClick ==
    /\ ui.type = "idle"
    /\ ~ui.clicked
    /\ convPc = "idle"
    /\ ui' = [ui EXCEPT !.clicked = TRUE]
    /\ convPc' = "start"
    /\ UNCHANGED <<convArgs, promise, signal, convertMediaState, state, parser,
                   stages, updates>>
    /\ UNCHANGED <<moofVars, mkvVars, callVars>>

\* the setState of onMediaStateUpdate is applied (lines 51-59), for the
\* states convertMedia has delivered in their order
UiOnMediaStateUpdate ==
    /\ ui.clicked
    /\ ui.seen < Len(updates)
    /\ ui' = [ui EXCEPT !.type = "in-progress", !.seen = @ + 1]
    /\ UNCHANGED <<moofVars, mkvVars, convVars, callVars>>

\* the updater of .then (lines 74-94)
thenUpdater(prevState) ==
    IF prevState.type # "in-progress"
    THEN [prevState EXCEPT !.thrown = "Invalid state transition"]
    ELSE [prevState EXCEPT !.type = "done"]

\* .then of the promise of convertMedia (lines 72-95)
UiThen ==
    /\ ui.clicked
    /\ ~ui.settled
    /\ promise.status = "resolved"
    /\ ui.seen = Len(updates)
    /\ ui' = [thenUpdater(ui) EXCEPT !.settled = TRUE]
    /\ UNCHANGED <<moofVars, mkvVars, convVars, callVars>>

\* (e as Error).stack?.toLowerCase()?.includes('aborted') (line 97): the stack
\* of an Error begins with its name and message
stackIncludesAborted(p) ==
    p.error \in {"Conversion aborted",
                 "Conversion aborted (see .cause of this error)",
                 "already aborted"}

\* .catch of the promise of convertMedia (lines 96-104)
UiCatch ==
    /\ ui.clicked
    /\ ~ui.settled
    /\ promise.status = "rejected"
    /\ ui.seen = Len(updates)
    /\ ui' = IF stackIncludesAborted(promise)
             THEN [ui EXCEPT !.type = "idle", !.settled = TRUE]
             ELSE [ui EXCEPT !.type = "error", !.error = promise.error,
                             !.settled = TRUE]
    /\ UNCHANGED <<moofVars, mkvVars, convVars, callVars>>

\* cancel (lines 111-118): abortController.abort() (lines 55-57), then idle.
\* convertMedia takes no signal (lines 34-48), so the conversion is not told.
Cancel ==
    /\ ui.type = "in-progress"
    /\ ui' = [ui EXCEPT !.type = "idle", !.aborted = TRUE]
    /\ UNCHANGED <<moofVars, mkvVars, convVars, callVars>>

\* dimissError (lines 120-122), behind the Dismiss button of the error state
DimissError ==
    /\ ui.type = "error"
    /\ ui' = [ui EXCEPT !.type = "idle"]
    /\ UNCHANGED <<moofVars, mkvVars, convVars, callVars>>

\* onDownload (lines 124-135): download() throws 'No name' while _n is null
\* (lines 81-83), and _n is only set by onName (lines 67-70), which
\* convertMedia never calls
OnDownload ==
    /\ ui.type = "done"
    /\ ui' = [ui EXCEPT !.type = "error", !.error = "No name"]
    /\ UNCHANGED <<moofVars, mkvVars, convVars, callVars>>

\* React applies a setState made outside its own handlers before the next
\* task runs: the callbacks of the conversion find the earlier states applied
rendered == ui.seen = Len(updates)

NextUi ==
    \/ OnClick
    \/ rendered /\ CallConvertMedia
    \/ rendered /\ CreateMedia
    \/ rendered /\ OnVideoTrack
    \/ rendered /\ OnAudioTrack
    \/ rendered /\ ProcessSample
    \/ rendered /\ OnFrame
    \/ rendered /\ OnFrameRejected
    \/ rendered /\ OnVideoFrame
    \/ rendered /\ OnAudioFrame
    \/ rendered /\ OnChunk
    \/ rendered /\ OnVideoChunk
    \/ rendered /\ OnAudioChunk
    \/ rendered /\ OnError
    \/ rendered /\ ParseMediaDone
    \/ rendered /\ ParseMediaFails
    \/ rendered /\ DecoderFinished
    \/ rendered /\ Finisher
    \/ rendered /\ WaitForFinishDone
    \/ UiOnMediaStateUpdate
    \/ UiThen
    \/ UiCatch
    \/ Cancel
    \/ DimissError
    \/ OnDownload

SpecUi == InitUi /\ [][NextUi]_vars

\* C25: when the promise of convertMedia is rejected because an encoder or a
\* decoder failed, the .catch of the UI puts it into the error state holding
\* that error; it does not go back to idle as after a cancellation.
C25_CodecFailureShown ==
    [][(/\ ~ui.settled
        /\ ui'.settled
        /\ promise.status = "rejected"
        /\ promise.cause # <<>>) =>
          (ui'.type = "error" /\ ui'.error = promise.error)]_vars

\* C26: the UI state moves from idle to in-progress on a delivered state and
\* from in-progress to done on the resolution, or to error or idle; whenever
\* the promise of convertMedia resolves the UI reaches done, also when no
\* state was delivered before or the UI had gone back to idle; cancel runs
\* only in in-progress and download only in done.
C26_ResolutionReachesDone ==
    /\ [][(~ui.settled /\ ui'.settled /\ promise.status = "resolved") =>
             ui'.type = "done"]_vars
    /\ [][ui'.type # ui.type =>
             \/ ui.type = "idle" /\ ui'.type \in {"in-progress", "done", "error"}
             \/ ui.type = "in-progress" /\ ui'.type \in {"done", "error", "idle"}
             \/ ui.type = "done" /\ ui'.type \in {"error", "idle"}
             \/ ui.type = "error" /\ ui'.type \in {"idle", "in-progress"}]_vars
    /\ [][(~ui.aborted /\ ui'.aborted) => ui.type = "in-progress"]_vars

\* C27: once the user has cancelled a conversion the UI stays idle: no later
\* state and no completion of that conversion puts it into in-progress or
\* done.
C27_CancelledStaysIdle ==
    ui.aborted => ui.type \notin {"in-progress", "done"}

\* C28: in every progress state convertMedia delivers, and in the counters
\* themselves, no more frames are counted as encoded than as decoded, for
\* video and for audio, however the onFrame and onChunk handlers interleave;
\* a step changes at most one counter, by exactly one and upwards: a decoded
\* counter when onFrame of that decoder gets to its end, an encoded counter
\* when onChunk of that encoder does, and no other step changes a counter.
C28_Ordered(counters) ==
    /\ counters.encodedVideoFrames <= counters.decodedVideoFrames
    /\ counters.encodedAudioFrames <= counters.decodedAudioFrames

C28_Fields ==
    {"decodedVideoFrames", "decodedAudioFrames", "encodedVideoFrames",
     "encodedAudioFrames"}

C28_CounterOf ==
    [decodedVideoFrames |-> stages["video"].released,
     decodedAudioFrames |-> stages["audio"].released,
     encodedVideoFrames |->
        stages["video"].chunks - Len(stages["video"].inChunk),
     encodedAudioFrames |->
        stages["audio"].chunks - Len(stages["audio"].inChunk)]

C29_Message == "Expected length to be greater than 0"

\* the element whose header starts at the offset is no Segment and no Cluster
\* and its size byte says 0
C29_ZeroSizedAt(off) ==
    /\ off + 2 <= Len(mkvStream)
    /\ mkvStream[off + 1] \notin {24, 31}
    /\ off + VintWidth(mkvStream[off + 1]) + 1 <= Len(mkvStream)
    /\ mkvStream[off + VintWidth(mkvStream[off + 1]) + 1] = 128

C29_ZeroLengthFails ==
    /\ (mkvLast.call # "none" /\ mkvStatus # "incomplete"
            /\ C29_ZeroSizedAt(mkvLast.entry)) =>
          /\ mkvStatus = "error"
          /\ mkvLast.error = C29_Message
          /\ NewEvents = <<>>
          /\ mkvLast.segments = <<>>
          /\ mkvOffset = mkvLast.entry + VintWidth(mkvStream[mkvLast.entry + 1]) + 1
    /\ (mkvLast.call # "none" /\ mkvStatus # "incomplete"
            /\ ElementAt(mkvLast.entry).name = "ClusterZeroChild") =>
          /\ mkvStatus = "error"
          /\ mkvLast.error = C29_Message
          /\ EventNames(NewEvents) \in {<<>>, <<"setTimestampOffset">>}
          /\ mkvLast.segments = <<>>
    /\ mkvLast.error = C29_Message =>
          /\ mkvStatus = "error"
          /\ mkvOffset >= 2
          /\ mkvStream[mkvOffset] = 128
          /\ mkvStream[mkvOffset - 1] \in {191, 215}

\* an element of an unknown id and of size 0 came second, after an element
\* that was parsed, and the parse failed at it
C29_Witness ==
    /\ mkvStatus = "error"
    /\ mkvLast.error = C29_Message
    /\ mkvLast.entry > 0
    /\ ElementAt(mkvLast.entry).name = "ZeroLengthUnknown"
    /\ Len(mkvSegments) = 1

\* C30: for a video track that is transcoded, the width and the height that
\* addTrack declares to the muxer are those the video encoder is configured
\* with, also when the display-aspect size of the track is not its coded
\* size.
C30_MuxerSizeIsEncoderSize ==
    stages["video"].encoder \in {"open", "closed"} =>
        /\ state.tracks[stages["video"].trackNumber].width =
              stages["video"].width
        /\ state.tracks[stages["video"].trackNumber].height =
              stages["video"].height

(***************************************************************************)
(*                              formatSeconds                               *)
(***************************************************************************)

\* A number of seconds is held as the number of its quarters, so that the
\* values between two integers that Math.round sends down (.25), up (.75)
\* and, being halves, up as well (.5) are all there.

\* The largest number of seconds formatted, in quarters of a second.
MaxQuarters == 484

\* Math.floor(seconds / 60)
minutesOf(quarters) == quarters \div 240

\* seconds % 60, in quarters of a second
secondsLeftOf(quarters) == quarters % 240

\* Math.round of a non-negative number of quarters: the nearest integer, a
\* half going up
mathRound(quarters) == (quarters + 2) \div 4

formatSeconds(quarters) ==
    LET minutes == minutesOf(quarters)
        secondsLeft == secondsLeftOf(quarters)
    IN  ToString(minutes) \o ":"
           \o (IF mathRound(secondsLeft) < 10 THEN "0" ELSE "")
           \o ToString(mathRound(secondsLeft)) \o " min"

InitFormat ==
    /\ calls = <<>>
    /\ IdleMoof
    /\ IdleMkv
    /\ IdleConvert
    /\ IdleUi

CallFormatSeconds ==
    /\ Len(calls) < MaxCalls
    /\ \E quarters \in 0..MaxQuarters :
          calls' = Append(calls, [seconds |-> quarters,
                                  outcome |-> formatSeconds(quarters)])
    /\ UNCHANGED <<moofVars, mkvVars, convVars, uiVars>>

NextFormat == CallFormatSeconds

SpecFormat == InitFormat /\ [][NextFormat]_vars

\* C31: for every number of seconds s >= 0, whole or not, formatSeconds(s)
\* is 'M:SS min' with M = floor(s / 60) and SS two digits from 00 to 59; the
\* seconds field is never 60.
C31_TwoDigits(n) == IF n < 10 THEN "0" \o ToString(n) ELSE ToString(n)

C31_SecondsBelowSixty ==
    \A k \in 1..Len(calls) :
       \E ss \in 0..59 :
          calls[k].outcome =
             ToString(calls[k].seconds \div 240) \o ":" \o C31_TwoDigits(ss)
                \o " min"

====
